---- MODULE Spec2Model ----
(***************************************************************************)
(* Dialogue tree engine of frank_libs.dialogue_tree: the node variants     *)
(* (nodes.py), the tree and its validator (tree.py) and the interpreter    *)
(* loop (interpreter.py), with the answer transcript of serde.py.          *)
(*                                                                         *)
(* Representation.                                                         *)
(*  - Python None is the empty tuple, a present value x is <<x>>.          *)
(*  - A raw answer (the string the input collaborator returns) is a record *)
(*    [kind |-> "num", n |-> k] for the decimal text of the integer k and  *)
(*    [kind |-> "text", s |-> w] for a text that parses as no number.      *)
(*  - A node is a record carrying the fields of its class; "type" is the   *)
(*    class (the discriminator of serde.JsonNode).                         *)
(*  - A call that raises is a result record whose exc field names the      *)
(*    exception; exc = "" is a normal return.                              *)
(***************************************************************************)
EXTENDS Integers, Sequences, FiniteSets, TLC

VARIABLES
    tree,                \* DialogueTree._tree: node id -> node
    current_node,        \* AbstractInterpreter._current_node (None or <<id>>)
    answers,             \* JsonAnswerSerializer._answers
    answer,              \* run(): the local variable answer
    pc,                  \* run(): position in the loop
    log,                 \* the calls made to the three collaborators, in order
    suspended,           \* a second interpreter over the same tree, awaiting (None or <<session>>)
    compact_graph_data,  \* TreeDialogueValidator._compact_graph_data
    report_summary,      \* ValidationReportSummary._reports
    validate_status,     \* outcome of the last validate() call
    validate_runs,       \* number of validate() calls made on the validator
    first_summary,       \* report_summary as the first validate() call left it
    present_node_types,  \* DialogueTree._present_node_types
    tree_dict,           \* DictJsonTreeDeserializer._tree_dict
    data,                \* JsonAnswerSerializer._data
    data_dict,           \* JsonAnswerSerializer._data_dict
    outcome              \* the last call made on the library and what it gave

vars == <<tree, current_node, answers, answer, pc, log, suspended, compact_graph_data,
          report_summary, validate_status, validate_runs, first_summary,
          present_node_types, tree_dict, data, data_dict, outcome>>

interp_vars == <<current_node, answers, answer, pc, log, suspended>>
validator_vars == <<compact_graph_data, report_summary, validate_status,
                    validate_runs, first_summary>>
library_vars == <<present_node_types, tree_dict, data, data_dict, outcome>>

(***************************************************************************)
(* Bounds of the model.                                                    *)
(***************************************************************************)
MaxId == 3          \* node ids 1..MaxId; MaxId + 1 is never a node (dangling)
MaxSteps == 3       \* loop iterations of run() that are explored
MaxRuns == 2        \* validate() calls that are explored
MaxChoices == 3     \* entries of a Choice or Interval definition that are explored
MaxAnswers == 3     \* add_answer calls that are explored on a transcript
MaxTicks == 2       \* advances of the clock that are explored

TERMINAL == -1

None == <<>>
Some(x) == <<x>>
IsNone(o) == o = <<>>
Val(o) == o[1]

(***************************************************************************)
(* Results of calls: a normal return of v, or an exception.                *)
(***************************************************************************)
Ret(v) == [exc |-> "", ret |-> v]
Raise(e) == [exc |-> e, ret |-> None]
Raised(r) == r.exc # ""

(***************************************************************************)
(* Raw answers and Python's conversions int(answer) and float(answer):     *)
(* None when the conversion raises ValueError.                             *)
(***************************************************************************)
NumAnswer(k) == [kind |-> "num", n |-> k]
TextAnswer(w) == [kind |-> "text", s |-> w]

ParseInt(a) == IF a.kind = "num" THEN Some(a.n) ELSE None
ParseFloat(a) == IF a.kind = "num" THEN Some(a.n) ELSE None

(***************************************************************************)
(* A dict as the sequence of its items in insertion order: d[key] = value  *)
(* keeps the place of a key already present.                               *)
(***************************************************************************)
DictKeys(d) == [i \in DOMAIN d |-> d[i].target_id]
DictHas(d, key) == \E i \in DOMAIN d : d[i].target_id = key
DictPut(d, item) ==
    IF DictHas(d, item.target_id)
    THEN [i \in DOMAIN d |-> IF d[i].target_id = item.target_id THEN item ELSE d[i]]
    ELSE Append(d, item)

RECURSIVE DictFromItems(_)
DictFromItems(items) ==
    IF items = <<>> THEN <<>>
    ELSE DictPut(DictFromItems(SubSeq(items, 1, Len(items) - 1)), items[Len(items)])

(***************************************************************************)
(* The node classes of nodes.py.                                           *)
(***************************************************************************)
ChoiceDialogueNode(id, text, choices) ==
    [type |-> "choice", id |-> id, text |-> text, choices |-> choices]

QuantifiableChoice(target_id, min_, max_) ==
    [target_id |-> target_id, min |-> min_, max |-> max_]

QuantifiableDialogueNode(id, text, min_value, max_value, choices) ==
    [type |-> "quantifiable", id |-> id, text |-> text,
     min_value |-> min_value, max_value |-> max_value, choices |-> choices]

RECURSIVE get_boundaries_from(_, _, _)
get_boundaries_from(choices, min_, max_) ==
    IF choices = <<>>
    THEN <<IF IsNone(min_) THEN 0 ELSE Val(min_), IF IsNone(max_) THEN 0 ELSE Val(max_)>>
    ELSE LET value == Head(choices).num
             mn == IF IsNone(min_) \/ value < Val(min_) THEN Some(value) ELSE min_
             mx == IF IsNone(max_) \/ value > Val(max_) THEN Some(value) ELSE max_
         IN get_boundaries_from(Tail(choices), mn, mx)

get_boundaries(choices) == get_boundaries_from(choices, None, None)

IntervalDialogueNode(id, text, choices) ==
    [type |-> "interval", id |-> id, text |-> text, choices |-> choices,
     min_value |-> get_boundaries(choices)[1],
     max_value |-> get_boundaries(choices)[2]]

GenericQuestionDialogueNode(id, text, next_node) ==
    [type |-> "question", id |-> id, text |-> text, next_node |-> next_node]

\* injected_data is None until DialogueTree.inject_data sets it
SlackUsersChooseDialogueNode(id, text, next_node, injected_data) ==
    [type |-> "slack_users", id |-> id, text |-> text, next_node |-> next_node,
     injected_data |-> injected_data]

EndDialogueNode(id, text) == [type |-> "end", id |-> id, text |-> text]

(***************************************************************************)
(* from_dict of the variants whose construction computes something.        *)
(***************************************************************************)
Choice_from_dict(node_id, node_def) ==
    ChoiceDialogueNode(node_id, node_def.text, DictFromItems(node_def.choices))

RECURSIVE Quantifiable_enum_min(_, _)
Quantifiable_enum_min(choices, acc) ==
    IF choices = <<>> THEN acc
    ELSE Quantifiable_enum_min(Tail(choices),
            IF Val(Head(choices).min) < acc THEN Val(Head(choices).min) ELSE acc)

RECURSIVE Quantifiable_enum_max(_, _)
Quantifiable_enum_max(choices, acc) ==
    IF choices = <<>> THEN acc
    ELSE Quantifiable_enum_max(Tail(choices),
            IF Val(Head(choices).max) > acc THEN Val(Head(choices).max) ELSE acc)

\* node_def.bounds is None when min_value/max_value are missing (KeyError)
Quantifiable_from_dict(node_id, node_def) ==
    LET enum_min_max == IsNone(node_def.bounds)
        min_value == IF enum_min_max
                     THEN Quantifiable_enum_min(node_def.choices, 0)
                     ELSE Val(node_def.bounds)[1]
        max_value == IF enum_min_max
                     THEN Quantifiable_enum_max(node_def.choices, 0)
                     ELSE Val(node_def.bounds)[2]
    IN QuantifiableDialogueNode(node_id, node_def.text, min_value, max_value,
                                DictFromItems(node_def.choices))

(***************************************************************************)
(* verify_answer: the outcome, or the exception the call raises.           *)
(***************************************************************************)
Choice_verify_answer(node, a) ==
    IF IsNone(ParseInt(a)) THEN Ret("ExpectedNumber")
    ELSE IF Val(ParseInt(a)) - 1 < Len(node.choices) THEN Ret("Ok")
    ELSE Ret("OutOfRange")

Quantifiable_verify_answer(node, a) ==
    IF IsNone(ParseFloat(a)) THEN Ret("ExpectedNumber")
    ELSE IF node.min_value <= Val(ParseFloat(a)) /\ Val(ParseFloat(a)) <= node.max_value
    THEN Ret("Ok")
    ELSE Ret("OutOfRange")

Interval_verify_answer(node, a) ==
    IF IsNone(ParseFloat(a)) THEN Ret("ExpectedNumber")
    ELSE IF node.min_value <= Val(ParseFloat(a)) /\ Val(ParseFloat(a)) <= node.max_value
    THEN Ret("Ok")
    ELSE Ret("OutOfRange")

\* data.values() on data = None raises AttributeError
SlackUsers_verify_answer(node, a) ==
    IF IsNone(node.injected_data) THEN Raise("AttributeError")
    ELSE IF a.kind = "text" /\ a.s \in Val(node.injected_data) THEN Ret("Ok")
    ELSE Ret("SlackUserNotFound")

verify_answer(node, a) ==
    CASE node.type = "choice" -> Choice_verify_answer(node, a)
      [] node.type = "quantifiable" -> Quantifiable_verify_answer(node, a)
      [] node.type = "interval" -> Interval_verify_answer(node, a)
      [] node.type = "slack_users" -> SlackUsers_verify_answer(node, a)
      [] OTHER -> Ret("Ok")

(***************************************************************************)
(* get_next: <<target id>>, None (Python returns nothing), or an exception *)
(***************************************************************************)
\* list(keys)[index]: a negative index counts from the end
Choice_get_next(node, a) ==
    LET index == Val(ParseInt(a)) - 1
        keys == DictKeys(node.choices)
        n == Len(keys)
    IN IF 0 <= index /\ index < n THEN Ret(Some(keys[index + 1]))
       ELSE IF 0 - n <= index /\ index < 0 THEN Ret(Some(keys[n + index + 1]))
       ELSE Raise("IndexError")

RECURSIVE Quantifiable_scan(_, _)
Quantifiable_scan(choices, n) ==
    IF choices = <<>> THEN Ret(Some(TERMINAL))
    ELSE LET choice == Head(choices)
         IN IF IsNone(choice.min) THEN Raise("TypeError")
            ELSE IF Val(choice.min) <= n
                 THEN IF IsNone(choice.max) THEN Raise("TypeError")
                      ELSE IF n <= Val(choice.max) THEN Ret(Some(choice.target_id))
                      ELSE Quantifiable_scan(Tail(choices), n)
                 ELSE Quantifiable_scan(Tail(choices), n)

\* mutant: the sub-ranges are scanned from the last stored to the first
Quantifiable_get_next_LastStored(node, a) ==
    Quantifiable_scan([i \in DOMAIN node.choices |->
                          node.choices[Len(node.choices) + 1 - i]],
                      Val(ParseFloat(a)))

Quantifiable_get_next(node, a) == Quantifiable_scan(node.choices, Val(ParseFloat(a)))

RECURSIVE Interval_scan(_, _, _)
Interval_scan(choices, i, n) ==
    IF i > Len(choices) - 1 THEN Ret(None)
    ELSE IF n <= choices[i + 1].num THEN Ret(Some(choices[i].target_id))
    ELSE Interval_scan(choices, i + 1, n)

Interval_get_next(node, a) == Interval_scan(node.choices, 1, Val(ParseFloat(a)))

\* mutant: the node with the following id is taken as the successor
OneAnswer_get_next_Following(node, a) == Ret(Some(node.id + 1))

OneAnswer_get_next(node, a) == Ret(node.next_node)

End_get_next(node, a) == Ret(Some(TERMINAL))

get_next(node, a) ==
    CASE node.type = "choice" -> Choice_get_next(node, a)
      [] node.type = "quantifiable" -> Quantifiable_get_next(node, a)
      [] node.type = "interval" -> Interval_get_next(node, a)
      [] node.type \in {"question", "slack_users"} -> OneAnswer_get_next(node, a)
      [] OTHER -> End_get_next(node, a)

\* the prompt a node renders, as the pair of the node and its text
get_question(node) == [kind |-> "question", node_id |-> node.id, text |-> node.text]

to_message(value) ==
    CASE value = "Ok" -> None
      [] value = "ExpectedNumber" -> Some("Expecting number as an answer")
      [] value = "OutOfRange" -> Some("Your answer is out of range")
      [] value = "SlackUserNotFound" -> Some("Slack user not found")
      [] OTHER -> None

(***************************************************************************)
(* DialogueTree                                                            *)
(***************************************************************************)
\* the id of the node found, None when the map has no node under the id (or
\* holds None under it)
get_node(t, node_id) ==
    IF ~IsNone(node_id) /\ Val(node_id) \in DOMAIN t
       /\ t[Val(node_id)].type # "NoneType"
    THEN Some(Val(node_id)) ELSE None

(***************************************************************************)
(* TreeDialogueValidator (tree.py)                                         *)
(***************************************************************************)
\* sorted(list, key=...): stable, ascending; the list is given as the
\* sequence of [key, item] and the items are returned
RECURSIVE InsertByKey(_, _)
InsertByKey(sorted, x) ==
    IF sorted = <<>> THEN <<x>>
    ELSE IF x.key < Head(sorted).key THEN <<x>> \o sorted
    ELSE <<Head(sorted)>> \o InsertByKey(Tail(sorted), x)

RECURSIVE SortKeyed(_)
SortKeyed(list) ==
    IF list = <<>> THEN <<>>
    ELSE InsertByKey(SortKeyed(SubSeq(list, 1, Len(list) - 1)), list[Len(list)])

SortedByKey(keyed) == [i \in DOMAIN keyed |-> SortKeyed(keyed)[i].item]

\* the report classes; each carries the node id and the data of its message
InvalidNodeNameReport(node_id, node_text) ==
    [kind |-> "InvalidNodeName", node_id |-> node_id, node_text |-> node_text]
InvalidChoiceNoAnswerReport(node_id, invalid_choices_ids) ==
    [kind |-> "InvalidChoiceNoAnswer", node_id |-> node_id,
     invalid_choices_ids |-> invalid_choices_ids]
InvalidQuantifiableChoiceReport(node_id, invalid_choices) ==
    [kind |-> "InvalidQuantifiableChoice", node_id |-> node_id,
     invalid_choices |-> invalid_choices]
InvalidIntervalSameNumberReport(node_id, target_id, n) ==
    [kind |-> "InvalidIntervalSameNumber", node_id |-> node_id,
     target_id |-> target_id, n |-> n]
InvalidIntervalSameTargetIdReport(node_id, target_id) ==
    [kind |-> "InvalidIntervalSameTargetId", node_id |-> node_id, target_id |-> target_id]
InvalidTargetNodeIdReport(node_id, target_node_ids) ==
    [kind |-> "InvalidTargetNodeId", node_id |-> node_id,
     target_node_ids |-> target_node_ids]
NoEdgesOnNodeReport(node_id) == [kind |-> "NoEdgesOnNode", node_id |-> node_id]
NodeNotTraversableToNodeId1(node_id) ==
    [kind |-> "NodeNotTraversableToNodeId1", node_id |-> node_id]

\* ValidationReportSummary.add_reports
RECURSIVE add_reports(_, _)
add_reports(summary, reports) ==
    IF reports = <<>> THEN summary
    ELSE LET report == Head(reports)
             had == IF report.node_id \in DOMAIN summary
                    THEN summary[report.node_id] ELSE <<>>
         IN add_reports((report.node_id :> Append(had, report)) @@ summary,
                        Tail(reports))

\* _validate_node_name: the report as a list of at most one element
validate_node_name(node) ==
    IF node.text = "" THEN <<InvalidNodeNameReport(node.id, node.text)>> ELSE <<>>

validate_target_id(t, target_id) ==
    IF IsNone(target_id) THEN FALSE ELSE Val(target_id) \in DOMAIN t

\* a list of reports as the method returns it: None when it is empty
ReportsOrNone(reports) == IF reports = <<>> THEN None ELSE Some(reports)

validate_choice_node(t, node) ==
    LET choices == node.choices
        invalid_choices == SelectSeq(DictKeys(choices),
            LAMBDA k : \E i \in DOMAIN choices :
                          choices[i].target_id = k /\ choices[i].text = "")
        invalid_target_ids == SelectSeq(DictKeys(choices),
            LAMBDA k : ~validate_target_id(t, Some(k)))
    IN Ret(ReportsOrNone(
           validate_node_name(node)
           \o (IF Len(invalid_choices) # 0
               THEN <<InvalidChoiceNoAnswerReport(node.id, invalid_choices)>> ELSE <<>>)
           \o (IF Len(invalid_target_ids) > 0
               THEN <<InvalidTargetNodeIdReport(node.id, invalid_target_ids)>> ELSE <<>>)
           \o (IF Len(choices) = 0 THEN <<NoEdgesOnNodeReport(node.id)>> ELSE <<>>)))

\* the loop of _validate_quantifiable_node over the sorted choices; st holds
\* invalid_target_ids, invalid_choices and the last choice seen (None at first)
RECURSIVE quantifiable_loop(_, _, _)
quantifiable_loop(t, sorted_choices, st) ==
    IF sorted_choices = <<>> THEN st
    ELSE LET choice == Head(sorted_choices)
         IN IF IsNone(choice.min) \/ IsNone(choice.max)
            THEN st        \* the report is constructed and dropped; break
            ELSE LET bad_target ==
                         IF validate_target_id(t, Some(choice.target_id)) THEN <<>>
                         ELSE <<choice.target_id>>
                     degenerate ==
                         IF choice.min = choice.max
                         THEN <<[target_id |-> choice.target_id,
                                 min |-> Val(choice.min), max |-> Val(choice.max)]>>
                         ELSE <<>>
                     gap ==
                         IF ~IsNone(st.last) /\ choice.min # Val(st.last).max
                         THEN <<[target_id |-> Val(st.last).target_id,
                                 min |-> Val(Val(st.last).min),
                                 max |-> Val(Val(st.last).max)]>>
                         ELSE <<>>
                 IN quantifiable_loop(t, Tail(sorted_choices),
                        [invalid_target_ids |-> st.invalid_target_ids \o bad_target,
                         invalid_choices |-> st.invalid_choices \o degenerate \o gap,
                         last |-> Some(choice)])

\* mutant: the sub-ranges are checked in stored order, without sorted()
validate_quantifiable_node_Unsorted(t, node) ==
    LET choices == node.choices
        st == quantifiable_loop(t, choices,
                  [invalid_target_ids |-> <<>>, invalid_choices |-> <<>>,
                   last |-> None])
    IN Ret(ReportsOrNone(
           validate_node_name(node)
           \o (IF st.invalid_choices # <<>>
               THEN <<InvalidQuantifiableChoiceReport(node.id, st.invalid_choices)>>
               ELSE <<>>)
           \o (IF Len(st.invalid_target_ids) > 0
               THEN <<InvalidTargetNodeIdReport(node.id, st.invalid_target_ids)>>
               ELSE <<>>)
           \o (IF Len(choices) = 0 THEN <<NoEdgesOnNodeReport(node.id)>> ELSE <<>>)))

\* sorted(choices_list, key=min) compares None with a number (TypeError) as
\* soon as two choices are compared and one has min = None
validate_quantifiable_node(t, node) ==
    LET choices == node.choices
    IN IF Len(choices) >= 2 /\ \E i \in DOMAIN choices : IsNone(choices[i].min)
       THEN Raise("TypeError")
       ELSE LET sorted_choices ==
                    IF Len(choices) < 2 THEN choices
                    ELSE SortedByKey([i \in DOMAIN choices |->
                             [key |-> Val(choices[i].min), item |-> choices[i]]])
                st == quantifiable_loop(t, sorted_choices,
                          [invalid_target_ids |-> <<>>, invalid_choices |-> <<>>,
                           last |-> None])
            IN Ret(ReportsOrNone(
                   validate_node_name(node)
                   \o (IF st.invalid_choices # <<>>
                       THEN <<InvalidQuantifiableChoiceReport(node.id, st.invalid_choices)>>
                       ELSE <<>>)
                   \o (IF Len(st.invalid_target_ids) > 0
                       THEN <<InvalidTargetNodeIdReport(node.id, st.invalid_target_ids)>>
                       ELSE <<>>)
                   \o (IF Len(choices) = 0 THEN <<NoEdgesOnNodeReport(node.id)>> ELSE <<>>)))

validate_one_answer_node(t, node) ==
    Ret(ReportsOrNone(
        validate_node_name(node)
        \o (IF IsNone(node.next_node) THEN <<NoEdgesOnNodeReport(node.id)>>
            ELSE IF ~validate_target_id(t, node.next_node)
            THEN <<InvalidTargetNodeIdReport(node.id, <<Val(node.next_node)>>)>>
            ELSE <<>>)))

\* _validate_target_ids_same_edge: prev_id must be truthy (not 0)
validate_target_ids_same_edge(node_id, target_ids) ==
    LET sorted_ids == SortedByKey([i \in DOMAIN target_ids |->
                          [key |-> target_ids[i], item |-> target_ids[i]]])
        hits == {i \in 2 .. Len(sorted_ids) :
                    sorted_ids[i - 1] # 0 /\ sorted_ids[i - 1] = sorted_ids[i]}
    IN [i \in 1 .. Cardinality(hits) |->
           InvalidIntervalSameTargetIdReport(node_id,
               sorted_ids[CHOOSE h \in hits : Cardinality({g \in hits : g < h}) = i - 1])]

validate_interval_node(t, node) ==
    LET sorted_choices == SortedByKey([i \in DOMAIN node.choices |->
                              [key |-> node.choices[i].num, item |-> node.choices[i]]])
        target_ids == [i \in DOMAIN sorted_choices |-> sorted_choices[i].target_id]
        invalid_target_ids == SelectSeq(target_ids,
            LAMBDA k : ~validate_target_id(t, Some(k)))
        same == {i \in 2 .. Len(sorted_choices) :
                    sorted_choices[i - 1].num = sorted_choices[i].num}
        same_number == [i \in 1 .. Cardinality(same) |->
            LET h == CHOOSE x \in same : Cardinality({g \in same : g < x}) = i - 1
            IN InvalidIntervalSameNumberReport(node.id, sorted_choices[h].target_id,
                                               sorted_choices[h].num)]
    IN Ret(ReportsOrNone(
           validate_node_name(node)
           \o same_number
           \o validate_target_ids_same_edge(node.id, target_ids)
           \o (IF Len(invalid_target_ids) > 0
               THEN <<InvalidTargetNodeIdReport(node.id, invalid_target_ids)>> ELSE <<>>)
           \o (IF Len(sorted_choices) = 0 THEN <<NoEdgesOnNodeReport(node.id)>> ELSE <<>>)))

validate_end_node(t, node) == Ret(ReportsOrNone(validate_node_name(node)))

\* _get_target_ids
get_target_ids(node) ==
    CASE node.type \in {"choice", "quantifiable"} -> DictKeys(node.choices)
      [] node.type \in {"question", "slack_users"} ->
            IF ~IsNone(node.next_node) THEN <<Val(node.next_node)>> ELSE <<>>
      [] node.type = "interval" ->
            [i \in DOMAIN node.choices |-> node.choices[i].target_id]
      [] OTHER -> <<>>

\* _mk_graph_data
mk_graph_data(t) == [node_id \in DOMAIN t |-> get_target_ids(t[node_id])]

\* mutant: a node is taken as reachable when any node has an edge to it
check_path_exists_AnyEdge(graph, to_node) ==
    \/ to_node = 1
    \/ \E n \in DOMAIN graph : \E i \in DOMAIN graph[n] : graph[n][i] = to_node

\* mutant: only node 1 and its direct successors are searched
check_path_exists_DirectOnly(graph, to_node) ==
    \/ to_node = 1
    \/ 1 \in DOMAIN graph /\ \E i \in DOMAIN graph[1] : graph[1][i] = to_node

\* the while loop of _check_path_exists on the queue of node ids (the path
\* lists queued with them are never read)
RECURSIVE bfs(_, _, _, _)
bfs(graph, queue, visited_nodes, to_node) ==
    IF queue = <<>> THEN FALSE
    ELSE LET node_id == Head(queue)
         IN IF node_id \in visited_nodes
            THEN bfs(graph, Tail(queue), visited_nodes, to_node)
            ELSE IF node_id = to_node THEN TRUE
            ELSE LET visited == visited_nodes \cup {node_id}
                     ids == IF node_id \in DOMAIN graph THEN graph[node_id] ELSE <<>>
                 IN bfs(graph,
                        Tail(queue) \o SelectSeq(ids, LAMBDA x : x \notin visited),
                        visited, to_node)

check_path_exists(graph, to_node) == bfs(graph, <<1>>, {}, to_node)

\* the body of validate()'s loop for one node: the reports added for it
node_reports(t, graph, node) ==
    LET r == CASE node.type = "choice" -> validate_choice_node(t, node)
               [] node.type = "quantifiable" -> validate_quantifiable_node(t, node)
               [] node.type \in {"question", "slack_users"} ->
                      validate_one_answer_node(t, node)
               [] node.type = "interval" -> validate_interval_node(t, node)
               [] OTHER -> validate_end_node(t, node)
    IN IF Raised(r) THEN r
       ELSE LET reports == IF IsNone(r.ret) THEN <<>> ELSE Val(r.ret)
            IN IF ~check_path_exists(graph, node.id)
               THEN Ret(Append(reports, NodeNotTraversableToNodeId1(node.id)))
               ELSE Ret(reports)

\* the ids of the node map in the order the loop visits them
NodeOrder(t) ==
    [i \in 1 .. Cardinality(DOMAIN t) |->
        CHOOSE x \in DOMAIN t : Cardinality({y \in DOMAIN t : y < x}) = i - 1]

\* validate(): the summary it leaves and whether it raised on the way
RECURSIVE validate_from(_, _, _, _)
validate_from(t, graph, ids, summary) ==
    IF ids = <<>> THEN [exc |-> "", summary |-> summary]
    ELSE LET r == node_reports(t, graph, t[Head(ids)])
         IN IF Raised(r) THEN [exc |-> r.exc, summary |-> summary]
            ELSE validate_from(t, graph, Tail(ids), add_reports(summary, r.ret))

validate(t, graph, summary) == validate_from(t, graph, NodeOrder(t), summary)

SummaryAfterFirst(r) == IF validate_runs = 0 THEN r.summary ELSE first_summary

\* mutant: validate() recomputes the adjacency list before it searches
ValidateReturns_Refreshed ==
    /\ validate_runs < MaxRuns
    /\ LET r == validate(tree, mk_graph_data(tree), report_summary)
       IN /\ ~Raised(r)
          /\ report_summary' = r.summary
          /\ first_summary' = SummaryAfterFirst(r)
    /\ validate_status' = "returned"
    /\ validate_runs' = validate_runs + 1
    /\ compact_graph_data' = mk_graph_data(tree)
    /\ UNCHANGED tree
    /\ UNCHANGED <<interp_vars, library_vars>>

\* validate() returns
ValidateReturns ==
    /\ validate_runs < MaxRuns
    /\ LET r == validate(tree, compact_graph_data, report_summary)
       IN /\ ~Raised(r)
          /\ report_summary' = r.summary
          /\ first_summary' = SummaryAfterFirst(r)
    /\ validate_status' = "returned"
    /\ validate_runs' = validate_runs + 1
    /\ UNCHANGED <<tree, compact_graph_data>>
    /\ UNCHANGED <<interp_vars, library_vars>>

\* validate() raises: the reports added before the failing node stay
ValidateRaises ==
    /\ validate_runs < MaxRuns
    /\ LET r == validate(tree, compact_graph_data, report_summary)
       IN /\ Raised(r)
          /\ report_summary' = r.summary
          /\ first_summary' = SummaryAfterFirst(r)
    /\ validate_status' = "raised"
    /\ validate_runs' = validate_runs + 1
    /\ UNCHANGED <<tree, compact_graph_data>>
    /\ UNCHANGED <<interp_vars, library_vars>>

(***************************************************************************)
(* AbstractInterpreter (interpreter.py)                                    *)
(***************************************************************************)
\* the calls on the three abstract collaborators
DisplayCall(text) == [call |-> "display_text", arg |-> text]
InputCall(a) == [call |-> "get_input", ret |-> a]
EndCall == [call |-> "end_dialogue"]

IsQuestion(e) == e.call = "display_text" /\ e.arg.kind = "question"
IsRetry(e) == e.call = "display_text" /\ e.arg.kind = "retry"
IsInput(e) == e.call = "get_input"
IsEnd(e) == e.call = "end_dialogue"

\* f'{msg}, please try again...\n'
RetryText(msg) == [kind |-> "retry", msg |-> msg]

\* the loop iterations begun so far: one question is displayed in each
Iterations == Cardinality({i \in DOMAIN log : IsQuestion(log[i])})

\* the clock read by AbstractAnswer.__init__: the collaborator calls made so far
Now == Len(log)

\* the second component of what verify_answer hands to run(): the number
\* parsed from the answer of a numeric node, None otherwise
verify_answer_data(node, a) ==
    IF node.type \in {"choice", "quantifiable", "interval"} /\ a.kind = "num"
    THEN Some([kind |-> "number", n |-> a.n])
    ELSE None

\* JsonNode.answer_from_node with AbstractAnswer.__init__; EndAnswer takes no
\* answer and keeps _answer None
answer_from_node(node, value) ==
    [id |-> node.id, answer |-> IF node.type = "end" THEN None ELSE value,
     time |-> Now]

\* mutant: the new answer is put in front of the transcript
add_answer_InFront(list, node, value) == <<answer_from_node(node, value)>> \o list

\* JsonAnswerSerializer.add_answer
add_answer(list, node, value) == Append(list, answer_from_node(node, value))

CurrentNode == tree[Val(current_node)]

\* mutant: reaching an End node leaves no record
RecordedAnswers_SkipsEnd ==
    IF CurrentNode.type = "end" THEN answers
    ELSE IF ~IsNone(verify_answer_data(CurrentNode, answer))
    THEN add_answer(answers, CurrentNode, Val(verify_answer_data(CurrentNode, answer)))
    ELSE add_answer(answers, CurrentNode, answer)

\* lines 34-38: the value recorded on Ok
RecordedAnswers ==
    IF CurrentNode.type # "end" /\ ~IsNone(verify_answer_data(CurrentNode, answer))
    THEN add_answer(answers, CurrentNode, Val(verify_answer_data(CurrentNode, answer)))
    ELSE add_answer(answers, CurrentNode, answer)

\* __init__ left _current_node = None (the tree has no node 1): get_question
\* is called on None
RunWithoutRoot ==
    /\ pc = "display"
    /\ IsNone(current_node)
    /\ pc' = "raised"
    /\ UNCHANGED <<tree, current_node, answers, answer, log>>
    /\ UNCHANGED <<suspended, validator_vars, library_vars>>

\* lines 21-28 at a non-terminal node: display the question, then await input
DisplayQuestion ==
    /\ pc = "display"
    /\ ~IsNone(current_node)
    /\ Iterations < MaxSteps
    /\ CurrentNode.type # "end"
    /\ log' = Append(log, DisplayCall(get_question(CurrentNode)))
    /\ pc' = "input"
    /\ UNCHANGED <<tree, current_node, answers, answer>>
    /\ UNCHANGED <<suspended, validator_vars, library_vars>>

\* mutant: the input collaborator is asked at an End node too
DisplayEnd_AsksInput ==
    /\ pc = "display"
    /\ ~IsNone(current_node)
    /\ Iterations < MaxSteps
    /\ CurrentNode.type = "end"
    /\ log' = Append(log, DisplayCall(get_question(CurrentNode)))
    /\ pc' = "input"
    /\ UNCHANGED <<tree, current_node, answers, answer>>
    /\ UNCHANGED <<suspended, validator_vars, library_vars>>

\* lines 21-28 at an End node: display the question, answer = None
DisplayEnd ==
    /\ pc = "display"
    /\ ~IsNone(current_node)
    /\ Iterations < MaxSteps
    /\ CurrentNode.type = "end"
    /\ log' = Append(log, DisplayCall(get_question(CurrentNode)))
    /\ answer' = None
    /\ pc' = "verify"
    /\ UNCHANGED <<tree, current_node, answers>>
    /\ UNCHANGED <<suspended, validator_vars, library_vars>>

\* line 26: the input collaborator returns a
GetInput(a) ==
    /\ pc = "input"
    /\ log' = Append(log, InputCall(a))
    /\ answer' = a
    /\ pc' = "verify"
    /\ UNCHANGED <<tree, current_node, answers>>
    /\ UNCHANGED <<suspended, validator_vars, library_vars>>

\* line 30 raises
VerifyRaises ==
    /\ pc = "verify"
    /\ Raised(verify_answer(CurrentNode, answer))
    /\ pc' = "raised"
    /\ UNCHANGED <<tree, current_node, answers, answer, log>>
    /\ UNCHANGED <<suspended, validator_vars, library_vars>>

\* lines 34-40: Ok, the answer is recorded, then get_next raises
AcceptNextRaises ==
    /\ pc = "verify"
    /\ verify_answer(CurrentNode, answer) = Ret("Ok")
    /\ Raised(get_next(CurrentNode, answer))
    /\ answers' = RecordedAnswers
    /\ pc' = "raised"
    /\ UNCHANGED <<tree, current_node, answer, log>>
    /\ UNCHANGED <<suspended, validator_vars, library_vars>>

\* lines 34-45: Ok, the resolved node exists
AcceptAdvance ==
    /\ pc = "verify"
    /\ verify_answer(CurrentNode, answer) = Ret("Ok")
    /\ ~Raised(get_next(CurrentNode, answer))
    /\ ~IsNone(get_node(tree, get_next(CurrentNode, answer).ret))
    /\ answers' = RecordedAnswers
    /\ current_node' = get_node(tree, get_next(CurrentNode, answer).ret)
    /\ pc' = "display"
    /\ UNCHANGED <<tree, answer, log>>
    /\ UNCHANGED <<suspended, validator_vars, library_vars>>

\* mutant: the successor is resolved first and the last answer is not recorded
AcceptEnd_NoRecord ==
    /\ pc = "verify"
    /\ verify_answer(CurrentNode, answer) = Ret("Ok")
    /\ ~Raised(get_next(CurrentNode, answer))
    /\ IsNone(get_node(tree, get_next(CurrentNode, answer).ret))
    /\ current_node' = None
    /\ log' = Append(log, EndCall)
    /\ pc' = "done"
    /\ UNCHANGED <<tree, answer, answers>>
    /\ UNCHANGED <<suspended, validator_vars, library_vars>>

\* lines 34-45: Ok, no node for the resolved id: end of the dialogue, break
AcceptEnd ==
    /\ pc = "verify"
    /\ verify_answer(CurrentNode, answer) = Ret("Ok")
    /\ ~Raised(get_next(CurrentNode, answer))
    /\ IsNone(get_node(tree, get_next(CurrentNode, answer).ret))
    /\ answers' = RecordedAnswers
    /\ current_node' = None
    /\ log' = Append(log, EndCall)
    /\ pc' = "done"
    /\ UNCHANGED <<tree, answer>>
    /\ UNCHANGED <<suspended, validator_vars, library_vars>>

\* mutant: the rejected answer is recorded as well
RejectAnswer_Recording ==
    /\ pc = "verify"
    /\ ~Raised(verify_answer(CurrentNode, answer))
    /\ verify_answer(CurrentNode, answer) # Ret("Ok")
    /\ answers' = add_answer(answers, CurrentNode, answer)
    /\ log' = Append(log, DisplayCall(RetryText(to_message(verify_answer(CurrentNode, answer).ret))))
    /\ pc' = "display"
    /\ UNCHANGED <<tree, current_node, answer>>
    /\ UNCHANGED <<suspended, validator_vars, library_vars>>

\* mutant: a rejected answer restarts the dialogue at node 1
RejectAnswer_Restarts ==
    /\ pc = "verify"
    /\ ~Raised(verify_answer(CurrentNode, answer))
    /\ verify_answer(CurrentNode, answer) # Ret("Ok")
    /\ log' = Append(log, DisplayCall(RetryText(to_message(verify_answer(CurrentNode, answer).ret))))
    /\ current_node' = get_node(tree, Some(1))
    /\ pc' = "display"
    /\ UNCHANGED <<tree, answers, answer>>
    /\ UNCHANGED <<suspended, validator_vars, library_vars>>

\* mutant: a rejected answer ends the session
RejectAnswer_Ends ==
    /\ pc = "verify"
    /\ ~Raised(verify_answer(CurrentNode, answer))
    /\ verify_answer(CurrentNode, answer) # Ret("Ok")
    /\ log' = Append(log, EndCall)
    /\ pc' = "done"
    /\ UNCHANGED <<tree, current_node, answers, answer>>
    /\ UNCHANGED <<suspended, validator_vars, library_vars>>

\* lines 46-51: any other outcome
RejectAnswer ==
    /\ pc = "verify"
    /\ ~Raised(verify_answer(CurrentNode, answer))
    /\ verify_answer(CurrentNode, answer) # Ret("Ok")
    /\ log' = Append(log, DisplayCall(RetryText(to_message(verify_answer(CurrentNode, answer).ret))))
    /\ pc' = "display"
    /\ UNCHANGED <<tree, current_node, answers, answer>>
    /\ UNCHANGED <<suspended, validator_vars, library_vars>>

(***************************************************************************)
(* The trees and inputs explored with the interpreter.                     *)
(***************************************************************************)
NodeIds == 1 .. MaxId
DanglingId == MaxId + 1

SeqsUpTo(S, n) == UNION {[1 .. k -> S] : k \in 0 .. n}

\* the session's inputs: the texts "0", "1", "3", and two names
Inputs == {NumAnswer(0), NumAnswer(1), NumAnswer(3), TextAnswer("bob"), TextAnswer("eve")}

Directory == {"bob"}

ChoiceDefs == {[text |-> "q", choices |-> c] :
                c \in SeqsUpTo({[target_id |-> t, text |-> "a"] : t \in {2, DanglingId}}, 2)}

QuantifiableDefs ==
    {[text |-> "q", bounds |-> b, choices |-> c] :
        b \in {None, Some(<<0, 2>>)},
        c \in SeqsUpTo({QuantifiableChoice(t, Some(r[1]), Some(r[2])) :
                          t \in {2, DanglingId}, r \in {<<0, 1>>, <<1, 2>>}}, 2)}

IntervalChoices ==
    SeqsUpTo({[num |-> n, target_id |-> t] : n \in {0, 2}, t \in {TERMINAL, 2}}, 2)

RootNodes ==
    {Choice_from_dict(1, d) : d \in ChoiceDefs}
    \cup {Quantifiable_from_dict(1, d) : d \in QuantifiableDefs}
    \cup {IntervalDialogueNode(1, "q", c) : c \in IntervalChoices}
    \cup {GenericQuestionDialogueNode(1, "q", n) : n \in {None, Some(2), Some(DanglingId)}}
    \cup {SlackUsersChooseDialogueNode(1, "q", Some(2), d) : d \in {None, Some(Directory)}}
    \cup {EndDialogueNode(1, "e")}

\* the successor the nodes after the root point to: i + 1, and 1 after the last
Successor(i) == IF i = MaxId THEN 1 ELSE i + 1

\* a place of the node map that holds no node
Absent == [type |-> "absent"]

\* the node map holding the nodes of f that are present
BuildTree(f) == [i \in {j \in DOMAIN f : f[j] # Absent} |-> f[i]]

SessionShapes == {"absent", "end", "question", "choice"}

InnerNode(i, shape) ==
    CASE shape = "end" -> EndDialogueNode(i, "e")
      [] shape = "question" -> GenericQuestionDialogueNode(i, "q", Some(Successor(i)))
      [] shape = "to_root" -> GenericQuestionDialogueNode(i, "q", Some(1))
      [] shape = "choice" ->
            ChoiceDialogueNode(i, "q", <<[target_id |-> 1, text |-> "a"],
                                         [target_id |-> Successor(i), text |-> "b"]>>)
      [] OTHER -> Absent

\* no call made yet
NoCall == [op |-> "none"]

\* the classes add_node has registered for the nodes of a built tree
TypesOf(t) == {t[i].type : i \in DOMAIN t}

\* the library objects a session or a validation does not call
LibraryIdle ==
    /\ present_node_types = TypesOf(tree)
    /\ tree_dict = <<>>
    /\ data = None
    /\ data_dict = None
    /\ outcome = NoCall

NoValidator ==
    /\ compact_graph_data = <<>>
    /\ report_summary = <<>>
    /\ validate_status = "none"
    /\ validate_runs = 0
    /\ first_summary = <<>>

\* AbstractInterpreter.__init__ on a built tree
Init ==
    /\ \E root \in RootNodes \cup {Absent} :
       \E shape \in [2 .. MaxId -> SessionShapes] :
          tree = BuildTree([i \in NodeIds |->
                              IF i = 1 THEN root ELSE InnerNode(i, shape[i])])
    /\ current_node = get_node(tree, Some(1))
    /\ answers = <<>>
    /\ answer = None
    /\ pc = "display"
    /\ log = <<>>
    /\ suspended = None
    /\ NoValidator
    /\ LibraryIdle

Next ==
    \/ RunWithoutRoot
    \/ DisplayQuestion
    \/ DisplayEnd
    \/ \E a \in Inputs : GetInput(a)
    \/ VerifyRaises
    \/ AcceptNextRaises
    \/ AcceptAdvance
    \/ AcceptEnd
    \/ RejectAnswer

Spec == Init /\ [][Next]_vars

(***************************************************************************)
(* Claims about the interpreter, checked under Spec.                       *)
(***************************************************************************)
\* the node whose question is the call log[i]
AskedNode(i) == tree[log[i].arg.node_id]

\* the iteration that obtained the input log[j] has run to its end
Processed(j) == Len(log) > j \/ pc # "verify"

Rejects(node, a) == ~Raised(verify_answer(node, a)) /\ verify_answer(node, a) # Ret("Ok")
Accepts(node, a) == verify_answer(node, a) = Ret("Ok")

\* the transcript records made while the calls i..j were the last ones made
RecordsDuring(i, j) == {k \in DOMAIN answers : answers[k].time \in i .. j}

\* C1: at one node, a first answer that is rejected followed by an answer that
\* is accepted gives exactly one retry prompt (between the two inputs there is
\* the retry prompt and the same question again, nothing else) and exactly
\* one transcript record, for that node and made at the accepted answer.
C1_OneRetryOneRecord ==
    \A i \in DOMAIN log : \A j \in DOMAIN log :
        ( /\ i < j
          /\ IsInput(log[i]) /\ IsInput(log[j])
          /\ \A m \in (i + 1) .. (j - 1) : ~IsInput(log[m])
          /\ (i = 2 \/ ~IsRetry(log[i - 2]))
          /\ Rejects(AskedNode(i - 1), log[i].ret)
          /\ Accepts(AskedNode(i - 1), log[j].ret)
          /\ Processed(j) )
        => /\ j = i + 3
           /\ IsRetry(log[i + 1])
           /\ IsQuestion(log[i + 2]) /\ log[i + 2] = log[i - 1]
           /\ Cardinality({m \in (i - 1) .. j : IsRetry(log[m])}) = 1
           /\ Cardinality(RecordsDuring(i - 1, j)) = 1
           /\ \A k \in RecordsDuring(i - 1, j) :
                 answers[k].id = AskedNode(i - 1).id /\ answers[k].time = j

\* C1 witness: a rejected then an accepted answer at one node, after which the
\* interpreter has advanced to another node
C1_Witness ==
    \E i \in DOMAIN log :
        /\ i + 3 \in DOMAIN log
        /\ IsInput(log[i]) /\ IsInput(log[i + 3])
        /\ Rejects(AskedNode(i - 1), log[i].ret)
        /\ Accepts(AskedNode(i - 1), log[i + 3].ret)
        /\ pc = "display"
        /\ current_node # Some(AskedNode(i - 1).id)
        /\ Len(answers) = 1

\* C2: a step that finds the answer rejected leaves the current node and the
\* transcript as they are and only displays the outcome's retry prompt; the
\* next thing displayed is the question of the same node.
C2_RejectChangesNothing ==
    [][ /\ (pc = "verify" /\ Rejects(CurrentNode, answer))
            => /\ current_node' = current_node
               /\ answers' = answers
               /\ pc' = "display"
               /\ log' = Append(log, DisplayCall(RetryText(
                                  to_message(verify_answer(CurrentNode, answer).ret))))
        /\ (pc = "display" /\ log # <<>> /\ IsRetry(log[Len(log)]) /\ log' # log)
            => log' = Append(log, log[Len(log) - 2])
      ]_vars

\* C2 witness: an answer was rejected at a node other than node 1 and the
\* question of that node was displayed again
C2_Witness ==
    \E i \in DOMAIN log :
        /\ IsRetry(log[i])
        /\ i + 1 \in DOMAIN log
        /\ IsQuestion(log[i + 1])
        /\ log[i + 1].arg.node_id # 1
        /\ log[i + 1] = log[i - 2]

EndCalls(l) == Cardinality({i \in DOMAIN l : IsEnd(l[i])})

\* get_next resolves to an id that has no node in the tree
ResolvesToNoNode(node, a) ==
    \/ IsNone(get_next(node, a).ret)
    \/ Val(get_next(node, a).ret) \notin DOMAIN tree

\* C3: on Ok the answer is recorded for the current node whatever get_next
\* does next; when get_next resolves to no node the end-of-dialogue
\* collaborator is called and the loop stops, otherwise the resolved node
\* becomes the current node; end-of-dialogue is called in no other step, and
\* no collaborator is called after it.
C3_AcceptRecordsThenRoutes ==
    [][ /\ (pc = "verify" /\ Accepts(CurrentNode, answer))
            => /\ Len(answers') = Len(answers) + 1
               /\ SubSeq(answers', 1, Len(answers)) = answers
               /\ answers'[Len(answers')].id = Val(current_node)
               /\ answers'[Len(answers')].time = Len(log)
               /\ IF Raised(get_next(CurrentNode, answer))
                  THEN pc' = "raised" /\ log' = log
                  ELSE IF ResolvesToNoNode(CurrentNode, answer)
                  THEN pc' = "done" /\ log' = Append(log, EndCall)
                  ELSE /\ current_node' = get_next(CurrentNode, answer).ret
                       /\ pc' = "display" /\ log' = log
        /\ (EndCalls(log') # EndCalls(log))
            => /\ pc = "verify" /\ Accepts(CurrentNode, answer)
               /\ ~Raised(get_next(CurrentNode, answer))
               /\ ResolvesToNoNode(CurrentNode, answer)
               /\ EndCalls(log) = 0
        /\ (pc = "done") => (log' = log /\ pc' = "done")
      ]_vars

\* C3 witness: a session that advanced from node 1 to another node and then
\* ended there
C3_Witness ==
    /\ pc = "done"
    /\ Len(answers) = 2
    /\ answers[1].id = 1
    /\ answers[2].id # 1
    /\ IsEnd(log[Len(log)])

\* C4: the first call displays the question of node 1; an input is obtained
\* only right after the question of a non-terminal node, and always after
\* such a question; after the question of an End node no input is obtained;
\* what follows a retry prompt or a recorded answer is again a question.
C4_QuestionThenInput ==
    /\ (log # <<>> => IsQuestion(log[1]) /\ log[1].arg.node_id = 1)
    /\ \A i \in DOMAIN log :
        /\ IsInput(log[i]) =>
              i > 1 /\ IsQuestion(log[i - 1]) /\ AskedNode(i - 1).type # "end"
        /\ (IsQuestion(log[i]) /\ AskedNode(i).type # "end") =>
              IF i < Len(log) THEN IsInput(log[i + 1]) ELSE pc = "input"
        /\ (IsQuestion(log[i]) /\ AskedNode(i).type = "end") =>
              IF i < Len(log) THEN ~IsInput(log[i + 1]) ELSE pc # "input"
        /\ (IsQuestion(log[i]) /\ i = Len(log)) => current_node = Some(log[i].arg.node_id)
        /\ ((IsRetry(log[i]) \/ IsInput(log[i])) /\ i < Len(log)) =>
              ~IsInput(log[i + 1])
        /\ (IsRetry(log[i]) /\ i < Len(log)) => IsQuestion(log[i + 1])

\* C4 witness: an input was obtained at a non-terminal node and the question
\* of an End node was followed by the end of the dialogue
C4_Witness ==
    \E i \in DOMAIN log :
        /\ IsQuestion(log[i]) /\ AskedNode(i).type = "end"
        /\ i < Len(log) /\ IsEnd(log[i + 1])
        /\ \E j \in DOMAIN log : IsInput(log[j])

\* C5: whatever the node variant and the answer, a rejected answer is
\* followed by the retry prompt with the outcome's message and then by the
\* same node's question: the session is neither ended nor aborted by it.
C5_RejectIsRecoverable ==
    \A i \in DOMAIN log :
        (IsInput(log[i]) /\ Processed(i) /\ Rejects(AskedNode(i - 1), log[i].ret))
        => /\ i < Len(log)
           /\ log[i + 1] = DisplayCall(RetryText(
                  to_message(verify_answer(AskedNode(i - 1), log[i].ret).ret)))
           /\ ~IsNone(log[i + 1].arg.msg)
           /\ IF i + 1 < Len(log)
              THEN log[i + 2] = log[i - 1]
              ELSE pc = "display" /\ current_node = Some(AskedNode(i - 1).id)

\* C5 witness: two invalid answers in a row at one node, re-prompted each time
C5_Witness ==
    \E i \in DOMAIN log :
        /\ i + 4 \in DOMAIN log
        /\ IsRetry(log[i]) /\ IsRetry(log[i + 3])
        /\ IsQuestion(log[i + 4])
        /\ log[i].arg.msg # log[i + 3].arg.msg

IsolatedId == MaxId + 2

Texts == {"q", ""}

ValidatedChoiceDefs ==
    {[text |-> x, choices |-> c] :
        x \in Texts,
        c \in SeqsUpTo({[target_id |-> t, text |-> y] :
                          t \in {2, DanglingId}, y \in {"a", ""}}, 2)}

ValidatedSubRanges ==
    {QuantifiableChoice(t, Some(lo), Some(hi)) :
        t \in {2, 3}, lo \in 0 .. 2, hi \in 0 .. 2} \ {QuantifiableChoice(t, Some(2), Some(0)) : t \in {2, 3}}

ValidatedQuantifiableDefs ==
    {[text |-> "q", bounds |-> b, choices |-> c] :
        b \in {None, Some(<<0, 2>>)},
        c \in {x \in SeqsUpTo(ValidatedSubRanges, 2) :
                 Len(x) < 2 \/ x[1].target_id # x[2].target_id}}

\* sub-ranges with a null bound: built with the constructor, which takes
\* float | None
NullBoundChoices ==
    {<<QuantifiableChoice(2, None, None)>>,
     <<QuantifiableChoice(2, Some(0), None)>>,
     <<QuantifiableChoice(2, None, Some(2)), QuantifiableChoice(3, Some(0), Some(2))>>,
     <<QuantifiableChoice(2, Some(0), Some(2)), QuantifiableChoice(3, None, None)>>,
     <<QuantifiableChoice(2, Some(0), None), QuantifiableChoice(3, Some(1), Some(2))>>}

ValidatedRootNodes ==
    {Choice_from_dict(1, d) : d \in ValidatedChoiceDefs}
    \cup {Quantifiable_from_dict(1, d) : d \in ValidatedQuantifiableDefs}
    \cup {QuantifiableDialogueNode(1, "q", 0, 2, c) : c \in NullBoundChoices}
    \cup {IntervalDialogueNode(1, "q", c) : c \in IntervalChoices}
    \cup {GenericQuestionDialogueNode(1, x, n) :
            x \in Texts, n \in {None, Some(1), Some(2), Some(DanglingId)}}
    \cup {SlackUsersChooseDialogueNode(1, "q", Some(2), None)}
    \cup {EndDialogueNode(1, x) : x \in Texts}

ValidatedShapes == {"absent", "end", "question", "to_root"}

IsolatedNodes ==
    {EndDialogueNode(IsolatedId, "e"), GenericQuestionDialogueNode(IsolatedId, "q", Some(1))}

InitValidate ==
    /\ \E root \in ValidatedRootNodes \cup {Absent} :
       \E shape \in [2 .. MaxId -> ValidatedShapes] :
       \E isolated \in IsolatedNodes \cup {Absent} :
          tree = BuildTree([i \in NodeIds \cup {IsolatedId} |->
                              IF i = 1 THEN root
                              ELSE IF i = IsolatedId THEN isolated
                              ELSE InnerNode(i, shape[i])])
    /\ current_node = None
    /\ answers = <<>>
    /\ answer = None
    /\ pc = "idle"
    /\ log = <<>>
    /\ suspended = None
    /\ compact_graph_data = mk_graph_data(tree)
    /\ report_summary = <<>>
    /\ validate_status = "none"
    /\ validate_runs = 0
    /\ first_summary = <<>>
    /\ LibraryIdle

NextValidate == ValidateReturns \/ ValidateRaises

SpecValidate == InitValidate /\ [][NextValidate]_vars

(***************************************************************************)
(* Claims about the validator, checked under SpecValidate.                 *)
(***************************************************************************)
\* the answers probed at a validated node: the texts "-1" .. "3"
ProbeAnswers == {NumAnswer(k) : k \in (0 - 1) .. 3}

FirstRunReturned == validate_runs = 1 /\ validate_status = "returned"

\* C7 (as claimed): on a Quantifiable node that validate() left without any
\* report, every answer verify_answer accepts is routed by get_next to the
\* target of one of the node's sub-ranges, never to TERMINAL
C7_ValidatedQuantifiableRoutes ==
    FirstRunReturned =>
        \A id \in DOMAIN tree :
            (tree[id].type = "quantifiable" /\ id \notin DOMAIN report_summary) =>
                \A a \in ProbeAnswers :
                    Accepts(tree[id], a) =>
                        /\ ~Raised(get_next(tree[id], a))
                        /\ \E i \in DOMAIN tree[id].choices :
                              get_next(tree[id], a).ret = Some(tree[id].choices[i].target_id)

\* the nodes a forward path of edges leads to from node 1, as a fixpoint
RECURSIVE ReachableFrom(_)
ReachableFrom(S) ==
    LET step == S \cup {x \in NodeIds \cup {DanglingId, IsolatedId, TERMINAL} :
                          \E n \in S \cap DOMAIN tree :
                             \E i \in DOMAIN get_target_ids(tree[n]) :
                                get_target_ids(tree[n])[i] = x}
    IN IF step = S THEN S ELSE ReachableFrom(step)

NotTraversableReports(id) ==
    IF id \in DOMAIN report_summary
    THEN {i \in DOMAIN report_summary[id] :
            report_summary[id][i] = NodeNotTraversableToNodeId1(id)}
    ELSE {}

\* C8: after validate() on a validator built over the tree, a node carries
\* a NodeNotTraversableToNodeId1 report (exactly one) iff no forward path of
\* edges leads from node 1 to it.
C8_ReportedIffUnreachable ==
    FirstRunReturned =>
        \A id \in DOMAIN tree :
            Cardinality(NotTraversableReports(id)) =
                IF id \in ReachableFrom({1}) THEN 0 ELSE 1

\* C8 witness: the linear tree 1 -> 2 -> 3 (End) with the isolated node 5:
\* one report, for node 5
C8_Witness ==
    /\ FirstRunReturned
    /\ DOMAIN tree = {1, 2, 3, 5}
    /\ tree[1] = GenericQuestionDialogueNode(1, "q", Some(2))
    /\ tree[2] = GenericQuestionDialogueNode(2, "q", Some(3))
    /\ tree[3] = EndDialogueNode(3, "e")
    /\ report_summary = (5 :> <<NodeNotTraversableToNodeId1(5)>>)

\* C9 (as claimed): validate() never raises
C9_ValidateNeverRaises == validate_status # "raised"

\* C10 (as claimed): a second validate() on the unchanged tree leaves the
\* report summary as the first one left it
C10_SecondRunSameSummary ==
    (validate_runs = 2 /\ validate_status = "returned") => report_summary = first_summary

(***************************************************************************)
(* Building a tree from its definition: JsonNode.node_from_def, the        *)
(* from_dict of the remaining variants, DialogueTree.add_node and the      *)
(* deserializers (serde.py).  A node definition is a record holding the    *)
(* keys the JSON object has; reading a missing key raises KeyError.        *)
(***************************************************************************)
\* what the node map holds for a definition of unrecognized type: None,
\* whose class is NoneType
NoneNode == [type |-> "NoneType"]

\* a bare number stands for the pair (number, -1)
Interval_from_dict(node_id, node_def) ==
    IntervalDialogueNode(node_id, node_def.text,
        [i \in DOMAIN node_def.choices |->
            IF "target_id" \in DOMAIN node_def.choices[i]
            THEN [num |-> node_def.choices[i].num,
                  target_id |-> node_def.choices[i].target_id]
            ELSE [num |-> node_def.choices[i].num, target_id |-> TERMINAL]])

\* int(None) raises TypeError, which leaves next_node None
Generic_from_dict(node_id, node_def) ==
    GenericQuestionDialogueNode(node_id, node_def.text, node_def.next_node)

SlackUsers_from_dict(node_id, node_def) ==
    SlackUsersChooseDialogueNode(node_id, node_def.text, node_def.next_node, None)

End_from_dict(node_id, node_def) == EndDialogueNode(node_id, node_def.text)

\* the keys from_dict of a type reads besides 'text'
RequiredKeys(node_type) ==
    CASE node_type \in {"choice", "quantifiable", "interval"} -> {"text", "choices"}
      [] node_type \in {"question", "slack_users"} -> {"text", "next_node"}
      [] OTHER -> {"text"}

\* the discriminators of JsonNode whose class nodes.py defines
JsonNodeValues == {"choice", "quantifiable", "question", "slack_users", "interval", "end"}

node_from_def(node_id, node_def) ==
    IF "type" \notin DOMAIN node_def THEN Raise("KeyError")
    ELSE IF node_def.type \notin JsonNodeValues
    THEN Ret(NoneNode)
    ELSE IF ~(RequiredKeys(node_def.type) \subseteq DOMAIN node_def)
    THEN Raise("KeyError")
    ELSE Ret(CASE node_def.type = "choice" -> Choice_from_dict(node_id, node_def)
               [] node_def.type = "quantifiable" ->
                      Quantifiable_from_dict(node_id, node_def)
               [] node_def.type = "question" -> Generic_from_dict(node_id, node_def)
               [] node_def.type = "slack_users" ->
                      SlackUsers_from_dict(node_id, node_def)
               [] node_def.type = "interval" -> Interval_from_dict(node_id, node_def)
               [] OTHER -> End_from_dict(node_id, node_def))

\* DialogueTree.add_node: the node map and the registry of present classes
add_node(t, types, id_, node) ==
    [tree |-> (id_ :> node) @@ t, types |-> types \cup {node.type}]

\* DialogueTree.requested_data_injections
requested_data_injections(types) ==
    IF "slack_users" \in types THEN <<"SlackUsers">> ELSE <<>>

\* _deserialize: the loop over the items of the definition, in their order
RECURSIVE deserialize_items(_, _, _)
deserialize_items(items, t, types) ==
    IF items = <<>> THEN [exc |-> "", tree |-> t, types |-> types]
    ELSE LET r == node_from_def(Head(items).node_id, Head(items).node_def)
         IN IF Raised(r) THEN [exc |-> r.exc, tree |-> t, types |-> types]
            ELSE LET added == add_node(t, types, Head(items).node_id, r.ret)
                 IN deserialize_items(Tail(items), added.tree, added.types)

\* DictJsonTreeDeserializer.deserialize() returns
DeserializeReturns ==
    /\ outcome = NoCall
    /\ LET r == deserialize_items(tree_dict, tree, present_node_types)
       IN /\ ~Raised(r)
          /\ tree' = r.tree
          /\ present_node_types' = r.types
          /\ outcome' = [op |-> "deserialize", result |-> Ret(None)]
    /\ UNCHANGED <<tree_dict, data, data_dict>>
    /\ UNCHANGED <<interp_vars, validator_vars>>

\* DictJsonTreeDeserializer.deserialize() raises: the nodes added before the
\* failing definition stay in the tree the deserializer holds
DeserializeRaises ==
    /\ outcome = NoCall
    /\ LET r == deserialize_items(tree_dict, tree, present_node_types)
       IN /\ Raised(r)
          /\ tree' = r.tree
          /\ present_node_types' = r.types
          /\ outcome' = [op |-> "deserialize", result |-> Raise(r.exc)]
    /\ UNCHANGED <<tree_dict, data, data_dict>>
    /\ UNCHANGED <<interp_vars, validator_vars>>

\* get_next on an answer: float(answer) and int(answer) raise ValueError on
\* a text that is no number
get_next_call(node, a) ==
    IF node.type \in {"choice", "quantifiable", "interval"} /\ IsNone(ParseFloat(a))
    THEN Raise("ValueError")
    ELSE get_next(node, a)

\* node.verify_answer(a) on a node of the built tree
VerifyAnswer(node_id, a) ==
    /\ node_id \in DOMAIN tree
    /\ tree[node_id].type # "NoneType"
    /\ outcome' = [op |-> "verify_answer", node_id |-> node_id, answer |-> a,
                   result |-> verify_answer(tree[node_id], a)]
    /\ UNCHANGED <<tree, present_node_types, tree_dict, data, data_dict>>
    /\ UNCHANGED <<interp_vars, validator_vars>>

\* node.get_next(a) on a node of the built tree
GetNext(node_id, a) ==
    /\ node_id \in DOMAIN tree
    /\ tree[node_id].type # "NoneType"
    /\ outcome' = [op |-> "get_next", node_id |-> node_id, answer |-> a,
                   result |-> get_next_call(tree[node_id], a)]
    /\ UNCHANGED <<tree, present_node_types, tree_dict, data, data_dict>>
    /\ UNCHANGED <<interp_vars, validator_vars>>

(***************************************************************************)
(* The node definitions explored with the node methods: one node, of id 1, *)
(* built by the deserializer and then asked about answers.                 *)
(***************************************************************************)
\* answers: the texts of small and large integers, and a name
ProbeInputs ==
    {NumAnswer(k) : k \in (0 - 2) .. (MaxChoices + 1)}
    \cup {NumAnswer(k) : k \in {0 - 25, 0 - 15, 5, 10, 15, 20, 25}}
    \cup {TextAnswer("bob")}

ProbedChoiceDefs ==
    {[type |-> "choice", text |-> "q",
      choices |-> [i \in 1 .. k |-> [target_id |-> i + 1, text |-> "a"]]] :
        k \in 0 .. MaxChoices}

ProbedSubRanges ==
    {QuantifiableChoice(t, Some(r[1]), Some(r[2])) :
        t \in {2, 3},
        r \in {<<0 - 20, 0 - 10>>, <<0, 10>>, <<10, 20>>, <<0, 20>>}}

ProbedQuantifiableDefs ==
    {[type |-> "quantifiable", text |-> "q", bounds |-> b, choices |-> c] :
        b \in {None, Some(<<0, 20>>)}, c \in SeqsUpTo(ProbedSubRanges, 2)}

\* entries with ascending thresholds; the first may be a bare number
ProbedIntervalEntries ==
    {[num |-> 0]} \cup {[num |-> n, target_id |-> t] : n \in {0, 10, 20}, t \in {5, 6}}

ProbedIntervalDefs ==
    {[type |-> "interval", text |-> "q", choices |-> c] :
        c \in {x \in SeqsUpTo(ProbedIntervalEntries, MaxChoices) :
                 \A i \in 1 .. Len(x) - 1 : x[i].num < x[i + 1].num}}

ProbedDefs ==
    ProbedChoiceDefs \cup ProbedQuantifiableDefs \cup ProbedIntervalDefs
    \cup {[type |-> "end"]}

\* a DictJsonTreeDeserializer over a definition, before deserialize()
FreshDeserializer ==
    /\ tree = <<>>
    /\ present_node_types = {}
    /\ data = None
    /\ data_dict = None
    /\ outcome = NoCall
    /\ current_node = None
    /\ answers = <<>>
    /\ answer = None
    /\ pc = "idle"
    /\ log = <<>>
    /\ suspended = None
    /\ NoValidator

InitNodes ==
    /\ \E d \in ProbedDefs : tree_dict = <<[node_id |-> 1, node_def |-> d]>>
    /\ FreshDeserializer

NextNodes ==
    \/ DeserializeReturns
    \/ DeserializeRaises
    \/ \E a \in ProbeInputs : VerifyAnswer(1, a)
    \/ \E a \in ProbeInputs : GetNext(1, a)

SpecNodes == InitNodes /\ [][NextNodes]_vars

(***************************************************************************)
(* Claims about the node methods, checked under SpecNodes.                 *)
(***************************************************************************)
\* the node the last call was made on
CalledNode == tree[outcome.node_id]

CalledNumber == Val(ParseFloat(outcome.answer))

\* C11 (as claimed): on a Choice node with k >= 1 choices verify_answer
\* gives Ok iff the answer is an integer n with 1 <= n <= k, OutOfRange for
\* every other integer and ExpectedNumber for a text that is no integer
C11_ChoiceVerifyOneBased ==
    (outcome.op = "verify_answer" /\ CalledNode.type = "choice"
        /\ Len(CalledNode.choices) >= 1) =>
        outcome.result =
            IF outcome.answer.kind # "num" THEN Ret("ExpectedNumber")
            ELSE IF 1 <= outcome.answer.n /\ outcome.answer.n <= Len(CalledNode.choices)
            THEN Ret("Ok")
            ELSE Ret("OutOfRange")

\* the places of the stored sub-ranges that contain v, bounds included
Containing(choices, v) ==
    {i \in DOMAIN choices : Val(choices[i].min) <= v /\ v <= Val(choices[i].max)}

FirstOf(S) == CHOOSE i \in S : \A j \in S : i <= j

\* C12: Quantifiable get_next(v) gives the target of the first stored
\* sub-range whose [min, max] contains v, and TERMINAL when none does; a
\* value on a boundary shared by two sub-ranges goes to the one stored
\* first, and verify_answer accepts it under the bounds from_dict derives.
C12_FirstStoredSubRange ==
    (outcome.op = "get_next" /\ CalledNode.type = "quantifiable"
        /\ outcome.answer.kind = "num") =>
        LET hits == Containing(CalledNode.choices, CalledNumber)
        IN /\ outcome.result =
                 IF hits = {} THEN Ret(Some(TERMINAL))
                 ELSE Ret(Some(CalledNode.choices[FirstOf(hits)].target_id))
           /\ (hits # {} /\ IsNone(tree_dict[1].node_def.bounds)) =>
                 verify_answer(CalledNode, outcome.answer) = Ret("Ok")

\* C12 witness: sub-ranges (target 2, 0..10) and (target 3, 10..20), the
\* answer "10" is accepted and routed to target 2
C12_Witness ==
    /\ outcome.op = "get_next"
    /\ CalledNode.type = "quantifiable"
    /\ CalledNode.choices = <<QuantifiableChoice(2, Some(0), Some(10)),
                              QuantifiableChoice(3, Some(10), Some(20))>>
    /\ outcome.answer = NumAnswer(10)
    /\ verify_answer(CalledNode, outcome.answer) = Ret("Ok")
    /\ outcome.result = Ret(Some(2))

\* the places of the thresholds that are >= v
AtLeast(choices, v) == {i \in DOMAIN choices : v <= choices[i].num}

\* C13 (as claimed): Interval get_next(v) gives the target paired with the
\* first threshold, in ascending order, that is >= v
C13_IntervalFirstThreshold ==
    (outcome.op = "get_next" /\ CalledNode.type = "interval"
        /\ outcome.answer.kind = "num"
        /\ AtLeast(CalledNode.choices, CalledNumber) # {}) =>
        outcome.result =
            Ret(Some(CalledNode.choices[
                        FirstOf(AtLeast(CalledNode.choices, CalledNumber))].target_id))

\* C14 (as claimed): when the definition omits min_value/max_value, the
\* node's bounds are the smallest sub-range min and the largest sub-range max
C14_DerivedBoundsAreExtremes ==
    (outcome.op = "deserialize" /\ ~Raised(outcome.result)
        /\ tree_dict[1].node_def.type = "quantifiable"
        /\ IsNone(tree_dict[1].node_def.bounds)
        /\ tree_dict[1].node_def.choices # <<>>) =>
        LET choices == tree[1].choices
        IN /\ \E i \in DOMAIN choices : tree[1].min_value = Val(choices[i].min)
           /\ \A i \in DOMAIN choices : tree[1].min_value <= Val(choices[i].min)
           /\ \E i \in DOMAIN choices : tree[1].max_value = Val(choices[i].max)
           /\ \A i \in DOMAIN choices : tree[1].max_value >= Val(choices[i].max)

(***************************************************************************)
(* JsonAnswerSerializer (serde.py): the transcript and its serialization.  *)
(* JSON text is modelled by the value it denotes: null, a number, a string *)
(* or an object; json.dumps maps None, numbers and str to them.            *)
(***************************************************************************)
\* what the transcript holds after add_answer named an id with no node:
\* answer_from_node(None, ...) is None
NoneAnswer == [class |-> "NoneType"]

\* AbstractAnswer.to_dict
to_dict(a) == [id |-> a.id, answer |-> a.answer, time |-> a.time]

\* the body shared by serialize_as_dict and serialize: a.to_dict() on None
\* raises AttributeError, self._answers[0] on an empty list IndexError
serialized_dict(list) ==
    IF \E i \in DOMAIN list : list[i] = NoneAnswer THEN Raise("AttributeError")
    ELSE IF list = <<>> THEN Raise("IndexError")
    ELSE Ret([time_start |-> list[1].time,
              time_end |-> list[Len(list)].time,
              answers |-> [i \in DOMAIN list |-> to_dict(list[i])]])

\* json.dumps of an answer value: None, a number (int or float) or a str
json_value(v) ==
    IF DOMAIN v = {} THEN [json |-> "null"]
    ELSE IF v.kind = "number" THEN [json |-> "number", n |-> v.n]
    ELSE [json |-> "string", chars |-> v]

json_number(n) == [json |-> "number", n |-> n]

\* json.dumps of the dict serialize() builds
json_dumps(d) ==
    [json |-> "object",
     time_start |-> json_number(d.time_start),
     time_end |-> json_number(d.time_end),
     answers |-> [i \in DOMAIN d.answers |->
                    [json |-> "object",
                     id |-> json_number(d.answers[i].id),
                     answer |-> json_value(d.answers[i].answer),
                     time |-> json_number(d.answers[i].time)]]]

\* add_answer(node_id, answer): get_node, answer_from_node, append
AddAnswer(node_id, value) ==
    /\ Len(answers) < MaxAnswers
    /\ answers' = IF node_id \in DOMAIN tree
                  THEN add_answer(answers, tree[node_id], value)
                  ELSE Append(answers, NoneAnswer)
    /\ outcome' = [op |-> "add_answer", node_id |-> node_id, answer |-> value]
    /\ UNCHANGED <<tree, current_node, answer, pc, log, suspended>>
    /\ UNCHANGED <<present_node_types, tree_dict, data, data_dict>>
    /\ UNCHANGED validator_vars

\* time.time() advances between two calls
TimePasses ==
    /\ Len(log) < MaxTicks
    /\ log' = Append(log, [call |-> "time_passes"])
    /\ UNCHANGED <<tree, current_node, answers, answer, pc, suspended>>
    /\ UNCHANGED <<validator_vars, library_vars>>

SerializeAsDictReturns ==
    /\ ~Raised(serialized_dict(answers))
    /\ data_dict' = Some(serialized_dict(answers).ret)
    /\ outcome' = [op |-> "serialize_as_dict", result |-> Ret(None)]
    /\ UNCHANGED <<present_node_types, tree_dict, data>>
    /\ UNCHANGED <<interp_vars, validator_vars, tree>>

SerializeAsDictRaises ==
    /\ Raised(serialized_dict(answers))
    /\ outcome' = [op |-> "serialize_as_dict",
                   result |-> Raise(serialized_dict(answers).exc)]
    /\ UNCHANGED <<present_node_types, tree_dict, data, data_dict>>
    /\ UNCHANGED <<interp_vars, validator_vars, tree>>

SerializeReturns ==
    /\ ~Raised(serialized_dict(answers))
    /\ data' = Some(json_dumps(serialized_dict(answers).ret))
    /\ outcome' = [op |-> "serialize", result |-> Ret(None)]
    /\ UNCHANGED <<present_node_types, tree_dict, data_dict>>
    /\ UNCHANGED <<interp_vars, validator_vars, tree>>

SerializeRaises ==
    /\ Raised(serialized_dict(answers))
    /\ outcome' = [op |-> "serialize", result |-> Raise(serialized_dict(answers).exc)]
    /\ UNCHANGED <<present_node_types, tree_dict, data, data_dict>>
    /\ UNCHANGED <<interp_vars, validator_vars, tree>>

\* the tree the serializer is constructed on: a question and an End node
TranscriptTree ==
    BuildTree([i \in 1 .. 2 |->
                 IF i = 1 THEN GenericQuestionDialogueNode(1, "q", Some(2))
                 ELSE EndDialogueNode(2, "e")])

\* the values add_answer is given: a text, a number, None
AnswerValues == {TextAnswer("bob"), [kind |-> "number", n |-> 1], None}

\* JsonAnswerSerializer.__init__ on a built tree
InitSerde ==
    /\ tree = TranscriptTree
    /\ current_node = None
    /\ answers = <<>>
    /\ answer = None
    /\ pc = "idle"
    /\ log = <<>>
    /\ suspended = None
    /\ NoValidator
    /\ LibraryIdle

NextSerde ==
    \/ \E node_id \in DOMAIN tree \cup {DanglingId} : \E value \in AnswerValues :
          AddAnswer(node_id, value)
    \/ TimePasses
    \/ SerializeAsDictReturns
    \/ SerializeAsDictRaises
    \/ SerializeReturns
    \/ SerializeRaises

SpecSerde == InitSerde /\ [][NextSerde]_vars

(***************************************************************************)
(* Claims about the transcript, checked under SpecSerde.                   *)
(***************************************************************************)
\* json.loads of what json_dumps gives
json_loads_value(j) ==
    IF j.json = "null" THEN None
    ELSE IF j.json = "number" THEN [kind |-> "number", n |-> j.n]
    ELSE j.chars

json_loads(j) ==
    [time_start |-> j.time_start.n,
     time_end |-> j.time_end.n,
     answers |-> [i \in DOMAIN j.answers |->
                    [id |-> j.answers[i].id.n,
                     answer |-> json_loads_value(j.answers[i].answer),
                     time |-> j.answers[i].time.n]]]

\* every add_answer so far named a node of the tree
AllAnswersOfNodes == \A i \in DOMAIN answers : answers[i] # NoneAnswer

\* d holds the transcript: order, node ids, values and times
HoldsTranscript(d) ==
    /\ Len(d.answers) = Len(answers)
    /\ \A i \in DOMAIN answers :
          /\ d.answers[i].id = answers[i].id
          /\ d.answers[i].answer = answers[i].answer
          /\ d.answers[i].time = answers[i].time
          /\ d.time_start <= d.answers[i].time
          /\ d.answers[i].time <= d.time_end
    /\ d.time_start = answers[1].time
    /\ d.time_end = answers[Len(answers)].time

C16_EmptyTranscriptSerializes ==
    (answers = <<>> /\ outcome.op \in {"serialize", "serialize_as_dict"}) =>
        /\ ~Raised(outcome.result)
        /\ outcome.op = "serialize_as_dict" =>
              data_dict = Some([time_start |-> 0 - 1, time_end |-> 0 - 1,
                                answers |-> <<>>])
        /\ outcome.op = "serialize" =>
              data = Some([json |-> "object",
                           time_start |-> json_number(0 - 1),
                           time_end |-> json_number(0 - 1),
                           answers |-> <<>>])

(***************************************************************************)
(* DialogueTree (tree.py): add_node and inject_data on a tree under        *)
(* construction.                                                           *)
(***************************************************************************)
\* the classes that have BaseInjectableNode.inject_data
Injectable == {"slack_users"}

\* mutant: only the first instance of the class receives the data
inject_data_FirstOnly(t, node_type, d) ==
    LET matching == {i \in DOMAIN t : t[i].type = node_type}
    IN IF matching # {} /\ node_type \notin Injectable THEN Raise("AttributeError")
       ELSE Ret([i \in DOMAIN t |->
                   IF i \in matching /\ \A j \in matching : i <= j
                   THEN [t[i] EXCEPT !.injected_data = Some(d)]
                   ELSE t[i]])

\* DialogueTree.inject_data: the node map after the call; the cast does not
\* give a node an inject_data method, so an instance of a class without it
\* raises AttributeError
inject_data(t, node_type, d) ==
    LET matching == {i \in DOMAIN t : t[i].type = node_type}
    IN IF matching # {} /\ node_type \notin Injectable THEN Raise("AttributeError")
       ELSE Ret([i \in DOMAIN t |->
                   IF i \in matching
                   THEN [t[i] EXCEPT !.injected_data = Some(d)]
                   ELSE t[i]])

AddNode(id_, node) ==
    /\ tree' = add_node(tree, present_node_types, id_, node).tree
    /\ present_node_types' = add_node(tree, present_node_types, id_, node).types
    /\ outcome' = [op |-> "add_node", node_id |-> id_]
    /\ UNCHANGED <<tree_dict, data, data_dict>>
    /\ UNCHANGED <<interp_vars, validator_vars>>

InjectDataReturns(node_type, d) ==
    /\ ~Raised(inject_data(tree, node_type, d))
    /\ tree' = inject_data(tree, node_type, d).ret
    /\ outcome' = [op |-> "inject_data", node_type |-> node_type, data |-> d,
                   result |-> Ret(None)]
    /\ UNCHANGED <<present_node_types, tree_dict, data, data_dict>>
    /\ UNCHANGED <<interp_vars, validator_vars>>

InjectDataRaises(node_type, d) ==
    /\ Raised(inject_data(tree, node_type, d))
    /\ outcome' = [op |-> "inject_data", node_type |-> node_type, data |-> d,
                   result |-> Raise(inject_data(tree, node_type, d).exc)]
    /\ UNCHANGED <<tree, present_node_types, tree_dict, data, data_dict>>
    /\ UNCHANGED <<interp_vars, validator_vars>>

\* the nodes given to add_node under an id
AddedNodes(i) ==
    {GenericQuestionDialogueNode(i, "q", Some(Successor(i))),
     ChoiceDialogueNode(i, "q", <<[target_id |-> Successor(i), text |-> "a"]>>),
     SlackUsersChooseDialogueNode(i, "q", Some(Successor(i)), None),
     EndDialogueNode(i, "e")}

\* the user directories injected: sets of display names
Payloads == {{}, {"bob"}, {"bob", "eve"}}

NodeClasses == {"choice", "question", "slack_users", "end"}

\* DialogueTree.__init__
InitTree ==
    /\ tree = <<>>
    /\ present_node_types = {}
    /\ tree_dict = <<>>
    /\ data = None
    /\ data_dict = None
    /\ outcome = NoCall
    /\ current_node = None
    /\ answers = <<>>
    /\ answer = None
    /\ pc = "idle"
    /\ log = <<>>
    /\ suspended = None
    /\ NoValidator

NextTree ==
    \/ \E i \in NodeIds : \E node \in AddedNodes(i) : AddNode(i, node)
    \/ \E node_type \in NodeClasses : \E d \in Payloads : InjectDataReturns(node_type, d)
    \/ \E node_type \in NodeClasses : \E d \in Payloads : InjectDataRaises(node_type, d)

SpecTree == InitTree /\ [][NextTree]_vars

(***************************************************************************)
(* Claims about the tree, checked under SpecTree.                          *)
(***************************************************************************)
\* C17 (as claimed): requested_data_injections holds the SlackUsers request
\* iff the node map holds at least one SlackUsers node
C17_RequestIffSlackNodePresent ==
    ("SlackUsers" \in {requested_data_injections(present_node_types)[i] :
                         i \in DOMAIN requested_data_injections(present_node_types)})
    <=> (\E i \in DOMAIN tree : tree[i].type = "slack_users")

\* C18: inject_data(class, payload), for a class whose instances take
\* injected data, sets the injected data of every instance to payload and
\* leaves every other node, the ids of the node map and the registry of
\* present classes unchanged; afterwards a SlackUsers node's verify_answer
\* is Ok exactly for the display names of the payload and SlackUserNotFound
\* for every other answer.
C18_InjectReachesEveryInstance ==
    [][(outcome'.op = "inject_data" /\ ~Raised(outcome'.result)) =>
          /\ DOMAIN tree' = DOMAIN tree
          /\ present_node_types' = present_node_types
          /\ \A i \in DOMAIN tree :
                IF tree[i].type = outcome'.node_type
                THEN /\ tree'[i] = [tree[i] EXCEPT !.injected_data = Some(outcome'.data)]
                     /\ tree[i].type = "slack_users" =>
                           \A a \in Inputs :
                              verify_answer(tree'[i], a) =
                                 IF a.kind = "text" /\ a.s \in outcome'.data
                                 THEN Ret("Ok") ELSE Ret("SlackUserNotFound")
                ELSE tree'[i] = tree[i]]_vars

\* C18 witness: two SlackUsers nodes and a question; the directory {bob} was
\* injected into both, "bob" is found and "eve" is not
C18_Witness ==
    /\ outcome.op = "inject_data"
    /\ outcome.node_type = "slack_users"
    /\ outcome.data = {"bob"}
    /\ DOMAIN tree = NodeIds
    /\ tree[1].type = "slack_users" /\ tree[1].injected_data = Some({"bob"})
    /\ tree[2].type = "slack_users" /\ tree[2].injected_data = Some({"bob"})
    /\ tree[MaxId].type = "question"
    /\ verify_answer(tree[2], TextAnswer("bob")) = Ret("Ok")
    /\ verify_answer(tree[2], TextAnswer("eve")) = Ret("SlackUserNotFound")

(***************************************************************************)
(* The definitions explored with the deserializer: one definition per id,  *)
(* well-formed, of unrecognized type, or missing a required key.           *)
(***************************************************************************)
DeserializedDefs(i) ==
    {[type |-> "question", text |-> "q", next_node |-> Some(Successor(i))],
     [type |-> "slack_users", text |-> "q", next_node |-> Some(Successor(i))],
     [type |-> "choice", text |-> "q",
      choices |-> <<[target_id |-> Successor(i), text |-> "a"]>>],
     [type |-> "end", text |-> "e"],
     [type |-> "bogus", text |-> "q"],
     [type |-> "end"],
     [text |-> "q"]}

InitDeserialize ==
    /\ \E defs \in [NodeIds -> UNION {DeserializedDefs(i) : i \in NodeIds}] :
          /\ \A i \in NodeIds : defs[i] \in DeserializedDefs(i)
          /\ tree_dict = [i \in NodeIds |-> [node_id |-> i, node_def |-> defs[i]]]
    /\ FreshDeserializer

NextDeserialize == DeserializeReturns \/ DeserializeRaises

SpecDeserialize == InitDeserialize /\ [][NextDeserialize]_vars

(***************************************************************************)
(* Claims about deserialization, checked under SpecDeserialize.            *)
(***************************************************************************)
\* C19 (as claimed): after deserialization of a definition holding a node of
\* unrecognized type, the tree has no entry for that id (get_nodes() does
\* not contain it, get_node finds nothing) and every other node is built
C19_UnrecognizedTypeOmitted ==
    (outcome.op = "deserialize" /\ ~Raised(outcome.result)) =>
        \A i \in DOMAIN tree_dict :
            IF tree_dict[i].node_def.type \notin JsonNodeValues
            THEN /\ tree_dict[i].node_id \notin DOMAIN tree
                 /\ IsNone(get_node(tree, Some(tree_dict[i].node_id)))
            ELSE /\ tree_dict[i].node_id \in DOMAIN tree
                 /\ tree[tree_dict[i].node_id] =
                       node_from_def(tree_dict[i].node_id, tree_dict[i].node_def).ret

\* C20 (as claimed): when deserialization fails at some node, the tree
\* property exposes none of the nodes processed before the failing one
C20_NoPartialTree ==
    (outcome.op = "deserialize" /\ Raised(outcome.result)) => DOMAIN tree = {}

(***************************************************************************)
(* Two interpreters over one DialogueTree.  Each AbstractInterpreter has   *)
(* its own _current_node and its own JsonAnswerSerializer (interpreter.py  *)
(* lines 13-17); run() is a coroutine that yields at await                 *)
(* self._get_input().  The running session is held in the interpreter      *)
(* variables, the session that is waiting in suspended.                    *)
(***************************************************************************)
\* the fields of one AbstractInterpreter with the position of its run()
Session(node, list, a, at, calls) ==
    [current_node |-> node, answers |-> list, answer |-> a, pc |-> at, log |-> calls]

\* mutant: the transcript is one list shared by the interpreters
SwitchSession_SharedTranscript ==
    /\ ~IsNone(suspended)
    /\ pc \in {"input", "done", "raised"}
    /\ Val(suspended).pc \in {"display", "input"}
    /\ suspended' = Some(Session(current_node, answers, answer, pc, log))
    /\ current_node' = Val(suspended).current_node
    /\ answer' = Val(suspended).answer
    /\ pc' = Val(suspended).pc
    /\ log' = Val(suspended).log
    /\ UNCHANGED <<tree, answers>>
    /\ UNCHANGED <<validator_vars, library_vars>>

\* the event loop runs the other coroutine: the running session awaits its
\* input (line 26) or has returned, the other one has not finished
SwitchSession ==
    /\ ~IsNone(suspended)
    /\ pc \in {"input", "done", "raised"}
    /\ Val(suspended).pc \in {"display", "input"}
    /\ suspended' = Some(Session(current_node, answers, answer, pc, log))
    /\ current_node' = Val(suspended).current_node
    /\ answers' = Val(suspended).answers
    /\ answer' = Val(suspended).answer
    /\ pc' = Val(suspended).pc
    /\ log' = Val(suspended).log
    /\ UNCHANGED tree
    /\ UNCHANGED <<validator_vars, library_vars>>

\* the trees and answers explored with two sessions
SharedRoots ==
    {ChoiceDialogueNode(1, "q", <<[target_id |-> 2, text |-> "a"],
                                  [target_id |-> 3, text |-> "b"]>>),
     Quantifiable_from_dict(1, [text |-> "q", bounds |-> Some(<<0, 2>>),
                                choices |-> <<QuantifiableChoice(2, Some(0), Some(1)),
                                              QuantifiableChoice(3, Some(1), Some(2))>>]),
     GenericQuestionDialogueNode(1, "q", Some(2)),
     SlackUsersChooseDialogueNode(1, "q", Some(3), Some(Directory)),
     SlackUsersChooseDialogueNode(1, "q", Some(3), None),
     ChoiceDialogueNode(1, "q", <<>>),
     Absent}

SharedShapes == {"end", "question"}

SharedInputs == {NumAnswer(0), NumAnswer(1), TextAnswer("bob")}

\* two AbstractInterpreter.__init__ calls on one built tree
InitSessions ==
    /\ \E root \in SharedRoots :
       \E shape \in [2 .. MaxId -> SharedShapes] :
          tree = BuildTree([i \in NodeIds |->
                              IF i = 1 THEN root ELSE InnerNode(i, shape[i])])
    /\ current_node = get_node(tree, Some(1))
    /\ answers = <<>>
    /\ answer = None
    /\ pc = "display"
    /\ log = <<>>
    /\ suspended = Some(Session(get_node(tree, Some(1)), <<>>, None, "display", <<>>))
    /\ NoValidator
    /\ LibraryIdle

NextSessions ==
    \/ RunWithoutRoot
    \/ DisplayQuestion
    \/ DisplayEnd
    \/ \E a \in SharedInputs : GetInput(a)
    \/ VerifyRaises
    \/ AcceptNextRaises
    \/ AcceptAdvance
    \/ AcceptEnd
    \/ RejectAnswer
    \/ SwitchSession

SpecSessions == InitSessions /\ [][NextSessions]_vars

(***************************************************************************)
(* Claims about two sessions over one tree, checked under SpecSessions.    *)
(***************************************************************************)
\* what run() does from the point where it holds node_id as its current
\* node, alone, given the answers its input collaborator will return:
\* the current node, the transcript without its times, and where run() is
RECURSIVE RunAlone(_, _, _, _)
RunAlone(t, node_id, records, inputs) ==
    IF IsNone(node_id)
    THEN [current_node |-> None, records |-> records, pc |-> "done"]
    ELSE LET node == t[Val(node_id)]
             at_end == node.type = "end"
         IN IF ~at_end /\ inputs = <<>>
            THEN [current_node |-> node_id, records |-> records, pc |-> "input"]
            ELSE LET a == IF at_end THEN None ELSE Head(inputs)
                     rest == IF at_end THEN inputs ELSE Tail(inputs)
                     parsed == verify_answer_data(node, a)
                     value == IF ~at_end /\ ~IsNone(parsed) THEN Val(parsed) ELSE a
                     recorded == Append(records,
                                        [id |-> node.id,
                                         answer |-> IF at_end THEN None ELSE value])
                 IN IF Raised(verify_answer(node, a))
                    THEN [current_node |-> node_id, records |-> records, pc |-> "raised"]
                    ELSE IF verify_answer(node, a) # Ret("Ok")
                    THEN RunAlone(t, node_id, records, rest)
                    ELSE IF Raised(get_next(node, a))
                    THEN [current_node |-> node_id, records |-> recorded, pc |-> "raised"]
                    ELSE RunAlone(t, get_node(t, get_next(node, a).ret), recorded, rest)

\* a session run alone from __init__ on the tree
SessionAlone(t, inputs) ==
    IF IsNone(get_node(t, Some(1)))
    THEN [current_node |-> None, records |-> <<>>, pc |-> "raised"]
    ELSE RunAlone(t, get_node(t, Some(1)), <<>>, inputs)

\* the answers a session's input collaborator has returned, in order
InputsOf(calls) ==
    LET got == SelectSeq(calls, IsInput) IN [k \in DOMAIN got |-> got[k].ret]

\* a transcript without the times of its records
Untimed(list) == [k \in DOMAIN list |-> [id |-> list[k].id, answer |-> list[k].answer]]

\* the session is where it would be had it run alone on its own answers
AsAlone(s) ==
    s.pc \in {"input", "done", "raised"} =>
        LET alone == SessionAlone(tree, InputsOf(s.log))
        IN /\ s.current_node = alone.current_node
           /\ Untimed(s.answers) = alone.records
           /\ s.pc = alone.pc

\* C21: no step of a session changes the tree (node map with the payloads
\* and injected data of its nodes, registry of present variants), and
\* whenever a session awaits input or has finished, its current node and
\* its transcript are those of a run alone on the answers it was given,
\* however the two sessions were interleaved
C21_SessionsIndependent ==
    /\ [](/\ AsAlone(Session(current_node, answers, answer, pc, log))
          /\ AsAlone(Val(suspended)))
    /\ [][tree' = tree /\ present_node_types' = present_node_types]_vars

\* one session has finished with two records while the other, given other
\* answers, has recorded one and awaits input at its second node
C21_Witness ==
    /\ pc = "done"
    /\ Val(suspended).pc = "input"
    /\ Len(Val(suspended).answers) = 1
    /\ Len(answers) = 2
    /\ Val(suspended).current_node # Some(1)
    /\ InputsOf(log) # InputsOf(Val(suspended).log)

(***************************************************************************)
(* Claims about the validator's graph search, checked under SpecValidate.  *)
(***************************************************************************)
\* the ids reachable from the ids of S over the adjacency list, computed
\* once as the least set closed under the edges
RECURSIVE ReachableSet(_, _)
ReachableSet(graph, S) ==
    LET step == S \cup UNION {{graph[n][i] : i \in DOMAIN graph[n]} :
                                n \in S \cap DOMAIN graph}
    IN IF step = S THEN S ELSE ReachableSet(graph, step)

\* C22: for every node of the tree, the search _check_path_exists runs for
\* it gives the same answer as membership in the one set of ids reachable
\* from node 1 over the same adjacency list (trees with cycles, self-loops,
\* dangling target ids and without node 1 included)
C22_SearchIsReachableSet ==
    \A id \in DOMAIN tree :
        check_path_exists(compact_graph_data, id) =
            (id \in ReachableSet(compact_graph_data, {1}))

\* validate() has run on a tree with the cycle 1 -> 2 -> 3 -> 1 and the
\* node 5, which has an edge to node 1 and none from it: 5 alone is reported
C22_Witness ==
    /\ FirstRunReturned
    /\ DOMAIN tree = {1, 2, 3, 5}
    /\ compact_graph_data = (1 :> <<2>> @@ 2 :> <<3>> @@ 3 :> <<1>> @@ 5 :> <<1>>)
    /\ \A id \in DOMAIN tree :
          (NotTraversableReports(id) # {}) = ~check_path_exists(compact_graph_data, id)
    /\ {id \in DOMAIN tree : NotTraversableReports(id) # {}} = {5}

(***************************************************************************)
(* Claims about the reports of validate(), checked under SpecValidate.     *)
(***************************************************************************)
\* the elements of a list
Elements(list) == {list[i] : i \in DOMAIN list}

\* the reports of one class that the summary holds under a node id
ReportsOfKind(id, kind) ==
    IF id \in DOMAIN report_summary
    THEN {i \in DOMAIN report_summary[id] : report_summary[id][i].kind = kind}
    ELSE {}

\* the target ids a node refers to for which the tree holds no node
MissingTargets(node) == {x \in Elements(get_target_ids(node)) : x \notin DOMAIN tree}

\* C23 (as claimed): after validate(), a Choice, Quantifiable, Interval,
\* GenericQuestion or SlackUserChoice node carries an InvalidTargetNodeId
\* report iff at least one target id it refers to is not in the tree, and
\* the report lists exactly the missing ids
C23_MissingTargetsReported ==
    FirstRunReturned =>
        \A id \in DOMAIN tree :
            tree[id].type \in {"choice", "quantifiable", "interval", "question",
                               "slack_users"} =>
                /\ (ReportsOfKind(id, "InvalidTargetNodeId") # {}) =
                       (MissingTargets(tree[id]) # {})
                /\ \A i \in ReportsOfKind(id, "InvalidTargetNodeId") :
                      Elements(report_summary[id][i].target_node_ids) =
                          MissingTargets(tree[id])

\* both bounds of every sub-range of the node are numbers
AllBounded(node) ==
    \A i \in DOMAIN node.choices :
        ~IsNone(node.choices[i].min) /\ ~IsNone(node.choices[i].max)

\* the sub-ranges of a node in ascending order of their lower bounds
ByLowerBound(node) ==
    SortedByKey([i \in DOMAIN node.choices |->
                    [key |-> Val(node.choices[i].min), item |-> node.choices[i]]])

\* some sub-range is degenerate, or some sub-range does not end where the
\* next one in ascending order begins
BrokenChain(node) ==
    \/ \E i \in DOMAIN node.choices : node.choices[i].min = node.choices[i].max
    \/ \E i \in 1 .. Len(node.choices) - 1 :
          ByLowerBound(node)[i].max # ByLowerBound(node)[i + 1].min

\* C24: after validate(), a Quantifiable node whose sub-ranges all have
\* both bounds carries an InvalidQuantifiableChoice report iff, sorted by
\* lower bound, some adjacent pair fails current.max = next.min or some
\* sub-range has min = max
C24_ChainReportedIffBroken ==
    FirstRunReturned =>
        \A id \in DOMAIN tree :
            (tree[id].type = "quantifiable" /\ AllBounded(tree[id])) =>
                (ReportsOfKind(id, "InvalidQuantifiableChoice") # {}) =
                    BrokenChain(tree[id])

\* validate() has run on a node that stores [1, 2] before [0, 1]: the chain
\* is exact once sorted, and no InvalidQuantifiableChoice report is added
C24_Witness ==
    /\ FirstRunReturned
    /\ 1 \in DOMAIN tree
    /\ tree[1].type = "quantifiable"
    /\ tree[1].choices = <<QuantifiableChoice(2, Some(1), Some(2)),
                           QuantifiableChoice(3, Some(0), Some(1))>>
    /\ ~BrokenChain(tree[1])
    /\ ReportsOfKind(1, "InvalidQuantifiableChoice") = {}

\* InvalidQuantifiableNoneChoiceReport.__init__
InvalidQuantifiableNoneChoiceReport(node_id) ==
    [kind |-> "InvalidQuantifiableNoneChoice", node_id |-> node_id]

\* C25 (as claimed): once validate() has run, every Quantifiable node with
\* a sub-range whose min or max is null carries an
\* InvalidQuantifiableNoneChoice report under its id
C25_NullBoundReported ==
    validate_runs = 1 =>
        \A id \in DOMAIN tree :
            (tree[id].type = "quantifiable" /\ ~AllBounded(tree[id])) =>
                \E i \in ReportsOfKind(id, InvalidQuantifiableNoneChoiceReport(id).kind) :
                    report_summary[id][i] = InvalidQuantifiableNoneChoiceReport(id)

(***************************************************************************)
(* Further claims about the interpreter loop, checked under Spec.          *)
(***************************************************************************)
\* run() has taken the Ok branch and keeps a node as its current node
Moves == pc = "verify" /\ pc' = "display" /\ answers' # answers

\* C26: whenever run() moves from node a to node b, b is one of the target
\* ids _get_target_ids gives for a; no other step changes the current node
\* except to None at the end; so the current node is always reachable from
\* node 1 over the edges
C26_MovesFollowEdges ==
    /\ [][/\ Moves => Val(current_node') \in Elements(get_target_ids(CurrentNode))
          /\ ~Moves => (current_node' = current_node \/ IsNone(current_node'))]_vars
    /\ [](~IsNone(current_node) => Val(current_node) \in ReachableFrom({1}))

\* the session has moved twice and stands at node 3, two edges from node 1
C26_Witness ==
    /\ current_node = Some(3)
    /\ pc = "display"
    /\ Len(answers) = 2
    /\ answers[1].id = 1
    /\ answers[2].id = 2
    /\ 3 \in Elements(get_target_ids(tree[2]))
    /\ 2 \in Elements(get_target_ids(tree[1]))

(***************************************************************************)
(* Further claims about the node methods, checked under SpecNodes.         *)
(***************************************************************************)
\* C27 (as claimed): for every node and every answer verify_answer accepts
\* as Ok, get_next returns without raising, and what it returns is one of
\* the node's configured target ids or TERMINAL, never None
C27_AcceptedAnswerRoutes ==
    (outcome.op = "get_next" /\ Accepts(CalledNode, outcome.answer)) =>
        /\ ~Raised(outcome.result)
        /\ ~IsNone(outcome.result.ret)
        /\ Val(outcome.result.ret) \in
              Elements(get_target_ids(CalledNode)) \cup {TERMINAL}

\* the questions of the log at which an answer was accepted: the question
\* of an End node, and a question followed by an input its node accepts
AcceptedQuestions ==
    {i \in DOMAIN log :
        /\ IsQuestion(log[i])
        /\ \/ AskedNode(i).type = "end"
           \/ /\ i + 1 \in DOMAIN log
              /\ IsInput(log[i + 1])
              /\ Accepts(AskedNode(i), log[i + 1].ret)}

\* the k-th element of a set of numbers in ascending order
Nth(S, k) == CHOOSE x \in S : Cardinality({y \in S : y < x}) = k - 1

LastQuestion == Nth({i \in DOMAIN log : IsQuestion(log[i])}, Iterations)

\* C28: when the session has ended, the transcript holds exactly one record
\* per node at which an answer was accepted, in visit order, and none for
\* a rejected answer; an End node is recorded, without an answer value,
\* before end_dialogue is called; so the transcript is not empty and its
\* last record is for the node at which the session ended
C28_TranscriptAtEnd ==
    pc = "done" =>
        /\ Len(answers) = Cardinality(AcceptedQuestions)
        /\ \A k \in DOMAIN answers :
              LET i == Nth(AcceptedQuestions, k)
              IN /\ answers[k].id = AskedNode(i).id
                 /\ AskedNode(i).type = "end" => IsNone(answers[k].answer)
                 /\ AskedNode(i).type # "end" => answers[k].time = i + 1
                 /\ answers[k].time < Len(log)
        /\ answers # <<>>
        /\ IsEnd(log[Len(log)])
        /\ answers[Len(answers)].id = AskedNode(LastQuestion).id

\* a session whose first answer at node 1 was rejected, whose second was
\* accepted, and which then reached the End node 2 and ended there
C28_Witness ==
    /\ pc = "done"
    /\ Len(log) = 7
    /\ IsRetry(log[3])
    /\ Len(answers) = 2
    /\ answers[1].id = 1
    /\ answers[2].id = 2
    /\ tree[2].type = "end"
    /\ IsNone(answers[2].answer)

(***************************************************************************)
(* The validator DialogueTree.__init__ builds over its still empty node    *)
(* map (tree.py line 19), with the nodes added to the tree afterwards.     *)
(***************************************************************************)
\* the nodes added under id i: those of AddedNodes and a Quantifiable node
\* on which validate() raises
OwnValidatorNodes(i) ==
    AddedNodes(i)
    \cup {QuantifiableDialogueNode(i, "q", 0, 2,
              <<QuantifiableChoice(Successor(i), None, Some(2)),
                QuantifiableChoice(i, Some(0), Some(2))>>)}

\* DialogueTree.__init__ with TreeDialogueValidator.__init__ inside it
InitOwnValidator ==
    /\ InitTree
    /\ compact_graph_data = mk_graph_data(tree)

NextOwnValidator ==
    \/ \E i \in NodeIds : \E node \in OwnValidatorNodes(i) : AddNode(i, node)
    \/ ValidateReturns
    \/ ValidateRaises

SpecOwnValidator == InitOwnValidator /\ [][NextOwnValidator]_vars

\* C29: the adjacency list of the validator built in DialogueTree.__init__
\* stays the one of the empty tree whatever nodes are added, and every
\* validate() that returns adds one NodeNotTraversableToNodeId1 report for
\* every node of the tree other than node 1, and none for node 1, whatever
\* the edges of the nodes
C29_StaleGraphReportsAll ==
    /\ [](DOMAIN compact_graph_data = {})
    /\ [][(validate_runs' # validate_runs /\ validate_status' = "returned") =>
             \A id \in DOMAIN tree :
                Cardinality(NotTraversableReports(id)') =
                    Cardinality(NotTraversableReports(id)) + (IF id = 1 THEN 0 ELSE 1)]_vars

\* validate() has returned on the chain 1 -> 2 -> 3 added after
\* construction: nodes 2 and 3, each one edge away, are reported unreachable
C29_Witness ==
    /\ validate_runs = 1 /\ validate_status = "returned"
    /\ DOMAIN tree = {1, 2, 3}
    /\ tree[1] = GenericQuestionDialogueNode(1, "q", Some(2))
    /\ tree[2] = GenericQuestionDialogueNode(2, "q", Some(3))
    /\ tree[3] = EndDialogueNode(3, "e")
    /\ NotTraversableReports(1) = {}
    /\ NotTraversableReports(2) # {}
    /\ NotTraversableReports(3) # {}

(***************************************************************************)
(* Termination of a session.  The event loop runs every step of run() that *)
(* is ready (weak fairness of the steps); the input collaborator, asked    *)
(* again and again, eventually returns an answer the node accepts (strong  *)
(* fairness of such an input).                                             *)
(***************************************************************************)
\* the input collaborator returns an answer the current node accepts
AcceptedInput ==
    /\ pc = "input"
    /\ \E a \in Inputs : Accepts(CurrentNode, a) /\ GetInput(a)

SpecLive == Init /\ [][Next]_vars /\ WF_vars(Next) /\ SF_vars(AcceptedInput)

\* no node is reachable from itself over the edges of the tree
Acyclic ==
    \A id \in DOMAIN tree :
        id \notin ReachableSet(mk_graph_data(tree), Elements(get_target_ids(tree[id])))

\* every node that asks for input has an answer that it accepts
Answerable ==
    \A id \in DOMAIN tree :
        tree[id].type # "end" => \E a \in Inputs : Accepts(tree[id], a)

\* C30 (as claimed): on a tree with node 1 and acyclic edges where accepted
\* answers are eventually supplied, run() eventually calls end_dialogue and
\* terminates (or is still running after the MaxSteps iterations explored)
C30_AcyclicSessionEnds ==
    (1 \in DOMAIN tree /\ Acyclic /\ Answerable) =>
        <>(pc = "done" \/ Iterations >= MaxSteps)

====
